---- MODULE Spec2Model ----
(***************************************************************************)
(* The deterministic trip-to-driver assignment engine                      *)
(* (assignTripsToDrivers and its helpers), modelled as a state machine:    *)
(* one action per step of the function (entry and early returns, one loop  *)
(* iteration per trip, the final return), plus the caller that feeds the   *)
(* result of one run back as existingAssignments of the next run.          *)
(*                                                                         *)
(* Strings that the code takes apart (plannedArrivalTime, driver names)    *)
(* are sequences of one-character strings; strings that the code only      *)
(* builds (warnings, reasoning, summary) are TLA+ strings.  An optional    *)
(* value (T | null, T | undefined) is a sequence of length 0 or 1.         *)
(* Dates are milliseconds since EPOCH_BASE, a UTC midnight.                *)
(***************************************************************************)
EXTENDS Integers, Sequences, FiniteSets, TLC

(***************************************************************************)
(* Program constants                                                       *)
(***************************************************************************)
MIN_HOURS_BETWEEN_TRIPS == 3

NIGHT_SHIFT_CUTOFF_HOUR == 5

\* DAY_NAMES[d] of the source is DAY_NAMES[d + 1] here (sequences start at 1)
DAY_NAMES ==
  <<"Sunday", "Monday", "Tuesday", "Wednesday", "Thursday", "Friday", "Saturday">>

MS_PER_MINUTE == 1000 * 60

MS_PER_HOUR == 1000 * 60 * 60

MS_PER_DAY == 24 * MS_PER_HOUR

(***************************************************************************)
(* Optional values                                                         *)
(***************************************************************************)
None == <<>>

Some(v) == <<v>>

\* plannedArrivalTime === null: no sequence of characters equals it
NullTime == <<"null">>

(***************************************************************************)
(* Strings as character sequences: split, parseInt                         *)
(***************************************************************************)
DIGITS == <<"0", "1", "2", "3", "4", "5", "6", "7", "8", "9">>

IsDigit(c) == \E k \in 1..Len(DIGITS) : DIGITS[k] = c

DigitVal(c) == (CHOOSE k \in 1..Len(DIGITS) : DIGITS[k] = c) - 1

RECURSIVE Join(_)
Join(s) == IF s = <<>> THEN "" ELSE Head(s) \o Join(Tail(s))

\* String.prototype.split(sep) for a one-character separator
RECURSIVE split(_, _)
split(s, sep) ==
  IF \A k \in 1..Len(s) : s[k] # sep
    THEN <<s>>
    ELSE LET k == CHOOSE k \in 1..Len(s) :
                    s[k] = sep /\ \A j \in 1..(k - 1) : s[j] # sep
         IN  <<SubSeq(s, 1, k - 1)>> \o split(SubSeq(s, k + 1, Len(s)), sep)

RECURSIVE SkipSpaces(_)
SkipSpaces(s) ==
  IF s # <<>> /\ Head(s) = " " THEN SkipSpaces(Tail(s)) ELSE s

\* the number of leading decimal digits of s
RECURSIVE DigitRun(_)
DigitRun(s) ==
  IF s # <<>> /\ IsDigit(Head(s)) THEN 1 + DigitRun(Tail(s)) ELSE 0

\* the value of a sequence of decimal digits
RECURSIVE DigitsValue(_)
DigitsValue(s) ==
  IF s = <<>> THEN 0
  ELSE 10 * DigitsValue(SubSeq(s, 1, Len(s) - 1)) + DigitVal(s[Len(s)])

\* parseInt(str, 10): leading white space, an optional sign, then the longest
\* run of digits; whatever follows is ignored; None is NaN
parseIntDigits(u, n, negative) ==
  IF n = 0 THEN None
  ELSE IF negative THEN Some(0 - DigitsValue(SubSeq(u, 1, n)))
  ELSE Some(DigitsValue(SubSeq(u, 1, n)))

parseIntUnsigned(u, negative) == parseIntDigits(u, DigitRun(u), negative)

parseIntSigned(t) ==
  IF t # <<>> /\ Head(t) \in {"-", "+"}
    THEN parseIntUnsigned(Tail(t), Head(t) = "-")
    ELSE parseIntUnsigned(t, FALSE)

parseInt(str) == parseIntSigned(SkipSpaces(str))

(***************************************************************************)
(* parseTime, getEffectiveDayOfWeek, getTimestamp, timestampsTooClose      *)
(***************************************************************************)
\* the range checks of parseTime on the two parsed numbers
parseTimeChecked(hours, minutes) ==
  IF hours = None \/ minutes = None THEN None
  ELSE IF hours[1] < 0 \/ hours[1] > 23 THEN None
  ELSE IF minutes[1] < 0 \/ minutes[1] > 59 THEN None
  ELSE Some([hours |-> hours[1], minutes |-> minutes[1]])

parseTimeParts(parts) ==
  IF Len(parts) # 2 THEN None
  ELSE parseTimeChecked(parseInt(parts[1]), parseInt(parts[2]))

parseTime(time) ==
  IF time = NullTime \/ time = <<>> THEN None
  ELSE parseTimeParts(split(time, ":"))

\* variant: the cutoff hour itself still counts as the night before
effectiveDayOfParsedInclusive(dayOfWeek, parsed) ==
  IF parsed = None \/ parsed[1].hours > NIGHT_SHIFT_CUTOFF_HOUR
    THEN dayOfWeek
    ELSE IF dayOfWeek = 0 THEN 6 ELSE dayOfWeek - 1

\* the decision of getEffectiveDayOfWeek on the parsed time
effectiveDayOfParsed(dayOfWeek, parsed) ==
  IF parsed = None \/ parsed[1].hours >= NIGHT_SHIFT_CUTOFF_HOUR
    THEN dayOfWeek
    ELSE IF dayOfWeek = 0 THEN 6 ELSE dayOfWeek - 1

getEffectiveDayOfWeek(dayOfWeek, time) ==
  effectiveDayOfParsed(dayOfWeek, parseTime(time))

\* Date.prototype.setUTCHours(h, m, 0, 0): the UTC day of the date is kept,
\* the time within the day is replaced
setUTCHours(d, h, m) == (d - (d % MS_PER_DAY)) + h * MS_PER_HOUR + m * MS_PER_MINUTE

\* the two branches of getTimestamp on the parsed time
timestampOfParsed(date, parsed) ==
  IF parsed # None
    THEN setUTCHours(date, parsed[1].hours, parsed[1].minutes)
    ELSE setUTCHours(date, 0, 0)

\* variant: a trip before the cutoff is dated on the day before, as for the
\* availability lookup
getTimestampOfShiftDay(date, time) ==
  timestampOfParsed(
    IF parseTime(time) # None /\ parseTime(time)[1].hours < NIGHT_SHIFT_CUTOFF_HOUR
      THEN date - MS_PER_DAY ELSE date,
    parseTime(time))

getTimestamp(date, time) == timestampOfParsed(date, parseTime(time))

Abs(x) == IF x < 0 THEN 0 - x ELSE x

\* variant: the separation is measured within one calendar day only
timestampsTooCloseSameDay(ts1, ts2) ==
  /\ ts1 \div MS_PER_DAY = ts2 \div MS_PER_DAY
  /\ Abs(ts1 - ts2) < MIN_HOURS_BETWEEN_TRIPS * MS_PER_HOUR

\* variant: a trip exactly the minimum separation away is too close as well
timestampsTooCloseInclusive(ts1, ts2) ==
  Abs(ts1 - ts2) <= MIN_HOURS_BETWEEN_TRIPS * MS_PER_HOUR

\* diffMs / (1000 * 60 * 60) < MIN_HOURS_BETWEEN_TRIPS, without the division
timestampsTooClose(ts1, ts2) ==
  LET diffMs == Abs(ts1 - ts2) IN
  diffMs < MIN_HOURS_BETWEEN_TRIPS * MS_PER_HOUR

(***************************************************************************)
(* String.prototype.localeCompare for names made of letters and spaces,    *)
(* as the default (root) collation orders them: first by the letters with  *)
(* case ignored, and only when those agree, lower case before upper case.  *)
(***************************************************************************)
LOWER ==
  <<"a", "b", "c", "d", "e", "f", "g", "h", "i", "j", "k", "l", "m",
    "n", "o", "p", "q", "r", "s", "t", "u", "v", "w", "x", "y", "z">>

UPPER ==
  <<"A", "B", "C", "D", "E", "F", "G", "H", "I", "J", "K", "L", "M",
    "N", "O", "P", "Q", "R", "S", "T", "U", "V", "W", "X", "Y", "Z">>

IsUpper(c) == \E k \in 1..Len(UPPER) : UPPER[k] = c

\* primary weight: the letter, case ignored; a space sorts before every letter
LetterRank(c) ==
  IF \E k \in 1..Len(LOWER) : LOWER[k] = c
    THEN CHOOSE k \in 1..Len(LOWER) : LOWER[k] = c
    ELSE IF IsUpper(c) THEN CHOOSE k \in 1..Len(UPPER) : UPPER[k] = c
    ELSE 0

\* tertiary weight: lower case before upper case
CaseRank(c) == IF IsUpper(c) THEN 1 ELSE 0

RECURSIVE CompareBy(_, _, _)
CompareBy(a, b, tertiary) ==
  IF a = <<>> /\ b = <<>> THEN 0
  ELSE IF a = <<>> THEN 0 - 1
  ELSE IF b = <<>> THEN 1
  ELSE LET ra == IF tertiary THEN CaseRank(Head(a)) ELSE LetterRank(Head(a))
           rb == IF tertiary THEN CaseRank(Head(b)) ELSE LetterRank(Head(b))
       IN  IF ra < rb THEN 0 - 1
           ELSE IF ra > rb THEN 1
           ELSE CompareBy(Tail(a), Tail(b), tertiary)

localeCompare(a, b) ==
  LET primary == CompareBy(a, b, FALSE) IN
  IF primary # 0 THEN primary ELSE CompareBy(a, b, TRUE)

(***************************************************************************)
(* Array helpers                                                           *)
(***************************************************************************)
RECURSIVE SeqFilterIdx(_, _)
\* the subsequence of s at the positions in keep, in order
SeqFilterIdx(s, keep) ==
  IF s = <<>> THEN <<>>
  ELSE LET n == Len(s)
           front == SeqFilterIdx(SubSeq(s, 1, n - 1), keep)
       IN  IF n \in keep THEN Append(front, s[n]) ELSE front

Range(s) == {s[k] : k \in 1..Len(s)}

(***************************************************************************)
(* Drivers: the per-day lookup and the selection                           *)
(***************************************************************************)
\* variant: a driver without a priority comes after every other driver
PriorityOfAbsentLast(driver) == IF driver.priority = None THEN 4 ELSE driver.priority[1]

\* driver.priority ?? 2
PriorityOf(driver) == IF driver.priority = None THEN 2 ELSE driver.priority[1]

\* the comparator of the per-day sort
compareDayDrivers(a, b) ==
  LET priorityDiff == PriorityOf(a) - PriorityOf(b) IN
  IF priorityDiff # 0 THEN priorityDiff ELSE localeCompare(a.name, b.name)

\* Array.prototype.sort is stable: x goes before the first element that the
\* comparator puts strictly after it
InsertDayDriver(sorted, x) ==
  LET later == {k \in 1..Len(sorted) : compareDayDrivers(sorted[k], x) > 0}
      at    == IF later = {} THEN Len(sorted) + 1
               ELSE CHOOSE k \in later : \A j \in later : k <= j
  IN  SubSeq(sorted, 1, at - 1) \o <<x>> \o SubSeq(sorted, at, Len(sorted))

RECURSIVE sortDayDrivers(_)
sortDayDrivers(s) ==
  IF s = <<>> THEN <<>>
  ELSE InsertDayDriver(sortDayDrivers(SubSeq(s, 1, Len(s) - 1)), s[Len(s)])

\* drivers.filter(d => d.availability.some(a => a.dayOfWeek === day)).sort(...)
dayDriversOf(ds, day) ==
  sortDayDrivers(SeqFilterIdx(ds, {k \in 1..Len(ds) : day \in ds[k].availability}))

buildDriversByDay(ds) == [day \in 0..6 |-> dayDriversOf(ds, day)]

\* variant: only the timestamp pushed last is compared with the trip
hasConflictLastOnly(assignedTimestamps, tripTimestamp) ==
  /\ Len(assignedTimestamps) > 0
  /\ timestampsTooClose(assignedTimestamps[Len(assignedTimestamps)], tripTimestamp)

\* assignedTimestamps.some(ts => timestampsTooClose(ts, tripTimestamp))
hasConflict(assignedTimestamps, tripTimestamp) ==
  \E k \in 1..Len(assignedTimestamps) :
     timestampsTooClose(assignedTimestamps[k], tripTimestamp)

\* dayDrivers.filter(driver => !hasConflict)
availableDriversOf(dayDrivers, timestamps, tripTimestamp) ==
  SeqFilterIdx(dayDrivers,
    {k \in 1..Len(dayDrivers) : ~hasConflict(timestamps[dayDrivers[k].id], tripTimestamp)})

\* variant: the workload is compared before the priority
pickBetterLoadFirst(bestDriver, driver, load) ==
  IF load[driver.id] < load[bestDriver.id] THEN driver
  ELSE IF load[driver.id] > load[bestDriver.id] THEN bestDriver
  ELSE IF PriorityOf(driver) < PriorityOf(bestDriver) THEN driver
  ELSE IF PriorityOf(driver) > PriorityOf(bestDriver) THEN bestDriver
  ELSE IF localeCompare(driver.name, bestDriver.name) < 0 THEN driver
  ELSE bestDriver

\* variant: the workload is not compared
pickBetterNoLoad(bestDriver, driver, load) ==
  IF PriorityOf(driver) < PriorityOf(bestDriver) THEN driver
  ELSE IF PriorityOf(driver) > PriorityOf(bestDriver) THEN bestDriver
  ELSE IF localeCompare(driver.name, bestDriver.name) < 0 THEN driver
  ELSE bestDriver

\* one step of the reduce: the better of bestDriver and driver
pickBetter(bestDriver, driver, load) ==
  LET bestPriority    == PriorityOf(bestDriver)
      currentPriority == PriorityOf(driver)
      bestLoad        == load[bestDriver.id]
      currentLoad     == load[driver.id]
  IN  IF currentPriority < bestPriority THEN driver
      ELSE IF currentPriority > bestPriority THEN bestDriver
      ELSE IF currentLoad < bestLoad THEN driver
      ELSE IF currentLoad > bestLoad THEN bestDriver
      ELSE IF localeCompare(driver.name, bestDriver.name) < 0 THEN driver
      ELSE bestDriver

\* availableDrivers.reduce(...) without an initial value, on a non-empty array
RECURSIVE reduceDrivers(_, _, _)
reduceDrivers(bestDriver, rest, load) ==
  IF rest = <<>> THEN bestDriver
  ELSE reduceDrivers(pickBetter(bestDriver, Head(rest), load), Tail(rest), load)

selectDriver(availableDrivers, load) ==
  reduceDrivers(Head(availableDrivers), Tail(availableDrivers), load)

\* variant: the three labels are told apart by 1 and 2, so that a driver
\* without a priority is labelled low
priorityLabelOfTwoIsMed(driver) ==
  IF driver.priority = Some(1) THEN "high"
  ELSE IF driver.priority = Some(2) THEN "med"
  ELSE "low"

priorityLabelOf(driver) ==
  IF driver.priority = Some(1) THEN "high"
  ELSE IF driver.priority = Some(3) THEN "low"
  ELSE "med"

(***************************************************************************)
(* Messages                                                                *)
(***************************************************************************)
\* trip.tripDate.toISOString().split("T")[0], for the dates of the model:
\* EPOCH_BASE is 2026-01-10T00:00:00Z, a Saturday
ISO_DATES ==
  <<"2026-01-10", "2026-01-11", "2026-01-12", "2026-01-13", "2026-01-14",
    "2026-01-15", "2026-01-16", "2026-01-17">>

isoDateOf(date) == ISO_DATES[(date \div MS_PER_DAY) + 1]

noDriverWarning(trip, effectiveDay) ==
  LET effectiveDayName == DAY_NAMES[effectiveDay + 1]
      isNightShift     == effectiveDay # trip.dayOfWeek
      dayInfo          == IF isNightShift
                            THEN effectiveDayName \o " (night shift into "
                                   \o DAY_NAMES[trip.dayOfWeek + 1] \o ")"
                            ELSE effectiveDayName
  IN  "Trip " \o trip.tripId \o ": No driver available on " \o dayInfo

conflictWarning(trip) ==
  LET timeStr == IF trip.plannedArrivalTime = NullTime \/ trip.plannedArrivalTime = <<>>
                   THEN "unknown time"
                   ELSE Join(trip.plannedArrivalTime)
      dateStr == isoDateOf(trip.tripDate)
  IN  "Trip " \o trip.tripId \o ": All drivers have conflicting trips near "
        \o timeStr \o " on " \o dateStr

reasoningOf(trip, effectiveDay, selectedDriver) ==
  LET isNightShift == effectiveDay # trip.dayOfWeek
      dayLabel     == IF isNightShift
                        THEN DAY_NAMES[effectiveDay + 1] \o " night"
                        ELSE DAY_NAMES[trip.dayOfWeek + 1]
  IN  dayLabel \o " - " \o Join(selectedDriver.name)
        \o " (" \o priorityLabelOf(selectedDriver) \o " priority)"

(***************************************************************************)
(* Bounds and the inputs drawn in Init                                     *)
(***************************************************************************)
\* the longest list of trips, over the two runs together
MaxTrips == 3

\* the longest list of existingAssignments given to the first run
MaxExisting == 2

T_2300 == <<"2", "3", ":", "0", "0">>

T_0020 == <<"0", "0", ":", "2", "0">>

T_0320 == <<"0", "3", ":", "2", "0">>

T_0459 == <<"0", "4", ":", "5", "9">>

T_0500 == <<"0", "5", ":", "0", "0">>

\* the k-th trip of the caller: ids are unique, id and tripId differ
MkTrip(k, shape) ==
  [ id                 |-> "t" \o ToString(k),
    tripId             |-> "T-10" \o ToString(k),
    tripDate           |-> shape.tripDate,
    dayOfWeek          |-> shape.dayOfWeek,
    plannedArrivalTime |-> shape.plannedArrivalTime ]

\* (tripDate, dayOfWeek, plannedArrivalTime) of the batches: Saturday
\* 2026-01-10 and Sunday 2026-01-11, dayOfWeek as getDay gives it
TripShapes ==
  { [tripDate |-> 0,          dayOfWeek |-> 6, plannedArrivalTime |-> T_0020],
    [tripDate |-> 0,          dayOfWeek |-> 6, plannedArrivalTime |-> T_2300],
    [tripDate |-> MS_PER_DAY, dayOfWeek |-> 0, plannedArrivalTime |-> T_0020],
    [tripDate |-> MS_PER_DAY, dayOfWeek |-> 0, plannedArrivalTime |-> T_0320],
    [tripDate |-> MS_PER_DAY, dayOfWeek |-> 0, plannedArrivalTime |-> T_0500] }

TripLists ==
  UNION { { [k \in 1..n |-> MkTrip(k, f[k])] : f \in [1..n -> TripShapes] }
          : n \in 0..MaxTrips }

\* three drivers in the order of the drivers list, with the priorities each
\* is given; the order of the names is Al < bo < Cy
DriverSlots ==
  << [id |-> "d1", name |-> <<"C", "y">>, availability |-> {6},
      priorities |-> {Some(1), Some(2)}],
     [id |-> "d2", name |-> <<"b", "o">>, availability |-> {0, 6},
      priorities |-> {Some(1), Some(2), None}],
     [id |-> "d3", name |-> <<"A", "l">>, availability |-> {0},
      priorities |-> {None, Some(3)}] >>

MkDriver(slot, priority) ==
  [ id           |-> slot.id,
    name         |-> slot.name,
    priority     |-> priority,
    availability |-> slot.availability ]

DriverLists ==
  {<<>>} \cup
  { <<MkDriver(DriverSlots[1], p1), MkDriver(DriverSlots[2], p2),
      MkDriver(DriverSlots[3], p3)>>
      : p1 \in DriverSlots[1].priorities, p2 \in DriverSlots[2].priorities,
        p3 \in DriverSlots[3].priorities }

\* committed assignments: one of d2, one of a driver that is not in the
\* drivers list; a list may hold an entry twice (two trips at the same time)
ExistingPool ==
  << [driverId |-> "d2", tripDate |-> 0, plannedArrivalTime |-> T_2300],
     [driverId |-> "dX", tripDate |-> 0, plannedArrivalTime |-> T_2300] >>

\* lists of pool entries, in the order of the pool
ExistingLists ==
  UNION { { [k \in 1..n |-> ExistingPool[f[k]]]
              : f \in { g \in [1..n -> 1..Len(ExistingPool)]
                          : \A j \in 1..(n - 1) : g[j] <= g[j + 1] } }
          : n \in 0..MaxExisting }

\* plannedArrivalTime values of single trips: absent, empty, well formed on
\* both sides of the cutoff, and malformed
TimePool ==
  { NullTime,
    <<>>,
    T_0020, T_0459, T_0500, T_2300,
    <<"7", ":", "3", "5">>,
    <<"2", "4", ":", "0", "0">>,
    <<"1", "2", ":", "6", "0">>,
    <<"0", "1", ":", "3", "0", ":", "0", "0">>,
    <<"0", "1", "3", "0">>,
    <<"a", "b", ":", "c", "d">>,
    <<"-", "1", ":", "0", "0">>,
    <<"1", ":", "3", "0", "p", "m">> }

\* tripDate of single trips: a UTC midnight, and 16:00 UTC (the local midnight
\* of a zone east of Greenwich) of the day after
SingleDates == {0, MS_PER_DAY + 16 * MS_PER_HOUR}

\* dayOfWeek is an input of its own: every value, whatever the date
SingleTrips ==
  { MkTrip(1, [tripDate |-> d, dayOfWeek |-> w, plannedArrivalTime |-> t])
      : d \in SingleDates, w \in 0..6, t \in TimePool }

\* fleets of two and of three drivers that work on every day and have one
\* priority
EvenFleets ==
  { [k \in 1..n |-> [ id           |-> DriverSlots[k].id,
                      name         |-> DriverSlots[k].name,
                      priority     |-> p,
                      availability |-> 0..6 ]]
      : n \in {2, 3}, p \in {None, Some(1)} }

\* the lists of trips whose timestamps are pairwise at least the minimum
\* separation apart
SpreadTripLists ==
  { ts \in TripLists :
      \A j, k \in 1..Len(ts) :
         j # k => ~timestampsTooClose(
                     getTimestamp(ts[j].tripDate, ts[j].plannedArrivalTime),
                     getTimestamp(ts[k].tripDate, ts[k].plannedArrivalTime)) }

(***************************************************************************)
(* State                                                                   *)
(***************************************************************************)
VARIABLES
  trips,                \* argument of the running call
  drivers,              \* argument of the running call
  existingAssignments,  \* argument of the running call
  pc,                   \* "call", "loop", "done"
  i,                    \* position of the for-of loop over trips
  driverLoad,           \* Map driverId -> number
  driverTimestamps,     \* Map driverId -> number[]
  driversByDay,         \* Map day -> Driver[]
  assignments,          \* the local array
  warnings,             \* the local array
  result,               \* the returned AssignmentResult, None before the return
  iter,                 \* the constants of the last loop iteration, or None
  queued,               \* the caller's next batch of trips
  previous,             \* the arguments and result of the run before, or None
  expected,             \* the result of the call that the running call repeats, or None
  removed,              \* the existing assignments the caller left out of that call
  tripAssignment,       \* the rows of the TripAssignment table
  upcomingTrips,        \* the ids of the Trip rows with tripStage "Upcoming"
  activeDrivers,        \* the ids of the Driver rows with isActive
  call,                 \* the autoAssignDrivers calls in flight, by name
  dialogs,              \* the dialogs object of the app store
  lastCall              \* the last call made on the app store, or None

\* the database and the calls of the AI path
ai == << tripAssignment, upcomingTrips, activeDrivers, call >>

\* the app store
store == << dialogs, lastCall >>

vars ==
  << trips, drivers, existingAssignments, pc, i, driverLoad, driverTimestamps,
     driversByDay, assignments, warnings, result, iter, queued, previous,
     expected, removed, ai, store >>

\* typeof of a JavaScript value of the app store
JSValue(type, value) == [type |-> type, value |-> value]
JSTrue == JSValue("boolean", "true")
JSFalse == JSValue("boolean", "false")
JSNull == JSValue("object", "null")
JSString(str) == JSValue("string", str)

\* dialogs: { addDriver: false, editDriver: null, ... }
initialDialogs ==
  [ addDriver    |-> JSFalse,
    editDriver   |-> JSNull,
    deleteDriver |-> JSNull,
    addTrip      |-> JSFalse,
    importCSV    |-> JSFalse,
    assignDriver |-> JSNull ]

\* the app store as created
StoreCreated ==
  /\ dialogs = initialDialogs
  /\ lastCall = None

\* the names of the concurrent autoAssignDrivers calls
Calls == {"first", "second"}

\* an autoAssignDrivers call before its first statement
callEntered ==
  [ pc               |-> "fetchTrips",
    trips            |-> {},
    drivers          |-> {},
    text             |-> None,
    validAssignments |-> <<>>,
    warnings         |-> <<>>,
    summary          |-> None,
    transaction      |-> "none",
    result           |-> None ]

\* no trips, no drivers, no assignments in the database
DatabaseEmpty ==
  /\ tripAssignment = <<>>
  /\ upcomingTrips = {}
  /\ activeDrivers = {}
  /\ call = [c \in Calls |-> callEntered]

\* what belongs to the caller of the runs
caller == << queued, previous, expected, removed >>

locals ==
  << i, driverLoad, driverTimestamps, driversByDay, assignments, warnings, iter >>

args == << trips, drivers, existingAssignments >>

Fresh ==
  /\ i = 0
  /\ driverLoad = <<>>
  /\ driverTimestamps = <<>>
  /\ driversByDay = <<>>
  /\ assignments = <<>>
  /\ warnings = <<>>
  /\ iter = None
  /\ result = None

\* two runs: the first half of a list of trips, then the rest
InitBatches ==
  \E all \in TripLists, ds \in DriverLists, ex \in ExistingLists :
    /\ trips = SubSeq(all, 1, Len(all) \div 2)
    /\ queued = SubSeq(all, (Len(all) \div 2) + 1, Len(all))
    /\ drivers = ds
    /\ existingAssignments = ex

\* one run on one trip, of any day and time
InitSingle ==
  \E trip \in SingleTrips, ds \in DriverLists :
    /\ trips = <<trip>>
    /\ queued = <<>>
    /\ drivers = ds
    /\ existingAssignments = <<>>

\* one run on trips that are far apart, with drivers that work every day
InitEven ==
  \E ts \in SpreadTripLists, ds \in EvenFleets :
    /\ trips = ts
    /\ queued = <<>>
    /\ drivers = ds
    /\ existingAssignments = <<>>

Init ==
  /\ InitBatches \/ InitSingle \/ InitEven
  /\ pc = "call"
  /\ previous = None
  /\ expected = None
  /\ removed = <<>>
  /\ Fresh
  /\ DatabaseEmpty
  /\ StoreCreated

(***************************************************************************)
(* assignTripsToDrivers                                                    *)
(***************************************************************************)
noTripsResult ==
  [ assignments  |-> <<>>,
    warnings     |-> <<>>,
    summary      |-> "No trips to assign",
    distribution |-> <<>>,
    stats        |-> [totalTrips |-> 0, assignedCount |-> 0, unassignedCount |-> 0] ]

\* variant: one warning for each trip
noDriversResultPerTrip(ts) ==
  [ assignments  |-> <<>>,
    warnings     |-> [k \in 1..Len(ts) |-> "No active drivers available"],
    summary      |-> "Assignment failed: No drivers",
    distribution |-> <<>>,
    stats        |-> [ totalTrips      |-> Len(ts),
                       assignedCount   |-> 0,
                       unassignedCount |-> Len(ts) ] ]

noDriversResult(ts) ==
  [ assignments  |-> <<>>,
    warnings     |-> <<"No active drivers available">>,
    summary      |-> "Assignment failed: No drivers",
    distribution |-> <<>>,
    stats        |-> [ totalTrips      |-> Len(ts),
                       assignedCount   |-> 0,
                       unassignedCount |-> Len(ts) ] ]

\* variant: the drivers are looked at before the trips
earlyReturnDriversFirst(ts, ds) ==
  IF Len(ds) = 0
    THEN Some([ assignments  |-> <<>>,
                warnings     |-> <<"No active drivers available">>,
                summary      |-> "Assignment failed: No drivers",
                distribution |-> <<>>,
                stats        |-> [ totalTrips      |-> Len(ts),
                                   assignedCount   |-> 0,
                                   unassignedCount |-> Len(ts) ] ])
  ELSE IF Len(ts) = 0
    THEN Some([ assignments  |-> <<>>,
                warnings     |-> <<>>,
                summary      |-> "No trips to assign",
                distribution |-> <<>>,
                stats        |-> [ totalTrips      |-> 0,
                                   assignedCount   |-> 0,
                                   unassignedCount |-> 0 ] ])
  ELSE None

\* the two early returns, in the order of the code; None when neither is taken
earlyReturn(ts, ds) ==
  IF Len(ts) = 0 THEN Some(noTripsResult)
  ELSE IF Len(ds) = 0 THEN Some(noDriversResult(ts))
  ELSE None

\* if (trips.length === 0) return ...
ReturnNoTrips ==
  /\ pc = "call"
  /\ Len(trips) = 0
  /\ result' = earlyReturn(trips, drivers)
  /\ pc' = "done"
  /\ UNCHANGED << args, locals, caller >>
  /\ UNCHANGED << ai, store >>

\* if (drivers.length === 0) return ...
ReturnNoDrivers ==
  /\ pc = "call"
  /\ Len(trips) # 0
  /\ Len(drivers) = 0
  /\ result' = earlyReturn(trips, drivers)
  /\ pc' = "done"
  /\ UNCHANGED << args, locals, caller >>
  /\ UNCHANGED << ai, store >>

\* the existing assignments of a driver of the list, in the order given
existingOf(ex, id) == SeqFilterIdx(ex, {k \in 1..Len(ex) : ex[k].driverId = id})

\* variant: the timestamps of the existing assignments are not seeded
seedTimestampsEmpty(ds, ex) == [ id \in {ds[k].id : k \in 1..Len(ds)} |-> <<>> ]

\* driverTimestamps after the two initialisation loops
seedTimestamps(ds, ex) ==
  [ id \in {ds[k].id : k \in 1..Len(ds)} |->
      LET mine == existingOf(ex, id) IN
      [k \in 1..Len(mine) |-> getTimestamp(mine[k].tripDate, mine[k].plannedArrivalTime)] ]

\* variant: the existing assignments are not counted
seedLoadZero(ds, ex) == [ id \in {ds[k].id : k \in 1..Len(ds)} |-> 0 ]

\* variant: the load of an existing assignment is counted without the test
\* that the driver is in the list
seedLoadUnguarded(ds, ex) ==
  [ id \in {ds[k].id : k \in 1..Len(ds)} \cup {ex[k].driverId : k \in 1..Len(ex)} |->
      Len(existingOf(ex, id)) ]

\* driverLoad after the two initialisation loops
seedLoad(ds, ex) ==
  [ id \in {ds[k].id : k \in 1..Len(ds)} |-> Len(existingOf(ex, id)) ]

\* variant: the warnings array outlives the call and is not emptied
SetupKeepsWarnings ==
  /\ pc = "call"
  /\ earlyReturn(trips, drivers) = None
  /\ driverLoad' = seedLoad(drivers, existingAssignments)
  /\ driverTimestamps' = seedTimestamps(drivers, existingAssignments)
  /\ driversByDay' = buildDriversByDay(drivers)
  /\ assignments' = <<>>
  /\ i' = 1
  /\ pc' = "loop"
  /\ iter' = None
  /\ UNCHANGED << args, warnings, result, caller >>
  /\ UNCHANGED << ai, store >>

\* the maps and the per-day lookup are built, the loop starts
Setup ==
  /\ pc = "call"
  /\ earlyReturn(trips, drivers) = None
  /\ driverLoad' = seedLoad(drivers, existingAssignments)
  /\ driverTimestamps' = seedTimestamps(drivers, existingAssignments)
  /\ driversByDay' = buildDriversByDay(drivers)
  /\ assignments' = <<>>
  /\ warnings' = <<>>
  /\ i' = 1
  /\ pc' = "loop"
  /\ iter' = None
  /\ UNCHANGED << args, result, caller >>
  /\ UNCHANGED << ai, store >>

\* driversByDay.get(effectiveDay) || []
dayDriversFor(byDay, effectiveDay) ==
  IF effectiveDay \in DOMAIN byDay THEN byDay[effectiveDay] ELSE <<>>

\* the constants one iteration of the loop computes for a trip, in the order
\* the code computes them; selectedDriver is None when the iteration ends at
\* the continue
iterationSelected(trip, tripTimestamp, effectiveDay, dayDrivers, availableDrivers, load) ==
  [ trip             |-> trip,
    tripTimestamp    |-> tripTimestamp,
    effectiveDay     |-> effectiveDay,
    dayDrivers       |-> dayDrivers,
    availableDrivers |-> availableDrivers,
    selectedDriver   |-> IF Len(availableDrivers) = 0 THEN None
                         ELSE Some(selectDriver(availableDrivers, load)) ]

iterationFiltered(trip, tripTimestamp, effectiveDay, dayDrivers, timestamps, load) ==
  iterationSelected(trip, tripTimestamp, effectiveDay, dayDrivers,
                    availableDriversOf(dayDrivers, timestamps, tripTimestamp), load)

iterationOfDay(trip, tripTimestamp, effectiveDay, byDay, timestamps, load) ==
  iterationFiltered(trip, tripTimestamp, effectiveDay,
                    dayDriversFor(byDay, effectiveDay), timestamps, load)

\* variant: the drivers are looked up by the calendar day of the trip
iterationOfCalendarDay(trip, byDay, timestamps, load) ==
  iterationOfDay(trip,
                 getTimestamp(trip.tripDate, trip.plannedArrivalTime),
                 trip.dayOfWeek,
                 byDay, timestamps, load)

iteration(trip, byDay, timestamps, load) ==
  iterationOfDay(trip,
                 getTimestamp(trip.tripDate, trip.plannedArrivalTime),
                 getEffectiveDayOfWeek(trip.dayOfWeek, trip.plannedArrivalTime),
                 byDay, timestamps, load)

\* variant: the assignment carries the label of the trip, not its id
assignmentOfLabel(trip, effectiveDay, selectedDriver) ==
  [ tripId    |-> trip.tripId,
    driverId  |-> selectedDriver.id,
    reasoning |-> reasoningOf(trip, effectiveDay, selectedDriver) ]

\* assignments.push({ tripId: trip.id, driverId: selectedDriver.id, reasoning })
assignmentOf(trip, effectiveDay, selectedDriver) ==
  [ tripId    |-> trip.id,
    driverId  |-> selectedDriver.id,
    reasoning |-> reasoningOf(trip, effectiveDay, selectedDriver) ]

\* variant: the day list is not looked at, every unassigned trip gets the
\* warning of a day without drivers
WarnNoDriverWithAnyList(it) ==
  /\ Len(it.availableDrivers) = 0
  /\ warnings' = Append(warnings, noDriverWarning(it.trip, it.effectiveDay))
  /\ iter' = Some(it)

\* the three ways an iteration ends, given its constants
WarnNoDriverWith(it) ==
  /\ Len(it.availableDrivers) = 0
  /\ Len(it.dayDrivers) = 0
  /\ warnings' = Append(warnings, noDriverWarning(it.trip, it.effectiveDay))
  /\ iter' = Some(it)

\* variant: the conflict warning is pushed twice
WarnConflictWithTwice(it) ==
  /\ Len(it.availableDrivers) = 0
  /\ Len(it.dayDrivers) # 0
  /\ warnings' = Append(Append(warnings, conflictWarning(it.trip)), conflictWarning(it.trip))
  /\ iter' = Some(it)

WarnConflictWith(it) ==
  /\ Len(it.availableDrivers) = 0
  /\ Len(it.dayDrivers) # 0
  /\ warnings' = Append(warnings, conflictWarning(it.trip))
  /\ iter' = Some(it)

\* variant: the new assignment is put in front of the earlier ones
AssignTripWithUnshift(it) ==
  /\ Len(it.availableDrivers) # 0
  /\ assignments' =
       <<assignmentOf(it.trip, it.effectiveDay, it.selectedDriver[1])>> \o assignments
  /\ driverTimestamps' =
       [driverTimestamps EXCEPT ![it.selectedDriver[1].id] = Append(@, it.tripTimestamp)]
  /\ driverLoad' = [driverLoad EXCEPT ![it.selectedDriver[1].id] = @ + 1]
  /\ iter' = Some(it)

\* variant: the timestamp of the trip is not pushed to the list of the driver
AssignTripWithNoPush(it) ==
  /\ Len(it.availableDrivers) # 0
  /\ assignments' =
       Append(assignments, assignmentOf(it.trip, it.effectiveDay, it.selectedDriver[1]))
  /\ driverTimestamps' = driverTimestamps
  /\ driverLoad' = [driverLoad EXCEPT ![it.selectedDriver[1].id] = @ + 1]
  /\ iter' = Some(it)

AssignTripWith(it) ==
  /\ Len(it.availableDrivers) # 0
  /\ assignments' =
       Append(assignments, assignmentOf(it.trip, it.effectiveDay, it.selectedDriver[1]))
  /\ driverTimestamps' =
       [driverTimestamps EXCEPT ![it.selectedDriver[1].id] = Append(@, it.tripTimestamp)]
  /\ driverLoad' = [driverLoad EXCEPT ![it.selectedDriver[1].id] = @ + 1]
  /\ iter' = Some(it)

InLoop == pc = "loop" /\ i <= Len(trips)

\* no driver works on the effective day: a warning, continue
WarnNoDriver ==
  /\ InLoop
  /\ WarnNoDriverWith(iteration(trips[i], driversByDay, driverTimestamps, driverLoad))
  /\ i' = i + 1
  /\ UNCHANGED << args, pc, driverLoad, driverTimestamps, driversByDay, assignments,
                  result, caller >>
  /\ UNCHANGED << ai, store >>

\* every driver of the day has a conflicting trip: a warning, continue
WarnConflict ==
  /\ InLoop
  /\ WarnConflictWith(iteration(trips[i], driversByDay, driverTimestamps, driverLoad))
  /\ i' = i + 1
  /\ UNCHANGED << args, pc, driverLoad, driverTimestamps, driversByDay, assignments,
                  result, caller >>
  /\ UNCHANGED << ai, store >>

\* variant: getTimestamp sets the hours on the Date of the trip itself, not
\* on a copy
AssignTripSetsDate ==
  /\ InLoop
  /\ AssignTripWith(iteration(trips[i], driversByDay, driverTimestamps, driverLoad))
  /\ trips' = [trips EXCEPT ![i].tripDate =
                  getTimestamp(trips[i].tripDate, trips[i].plannedArrivalTime)]
  /\ i' = i + 1
  /\ UNCHANGED << drivers, existingAssignments, pc, driversByDay, warnings, result,
                  caller >>
  /\ UNCHANGED << ai, store >>

\* a driver is selected, the assignment pushed, the maps updated
AssignTrip ==
  /\ InLoop
  /\ AssignTripWith(iteration(trips[i], driversByDay, driverTimestamps, driverLoad))
  /\ i' = i + 1
  /\ UNCHANGED << args, pc, driversByDay, warnings, result, caller >>
  /\ UNCHANGED << ai, store >>

\* the comparator of the distribution sort is b.tripCount - a.tripCount
InsertDistribution(sorted, x) ==
  LET later == {k \in 1..Len(sorted) : x.tripCount - sorted[k].tripCount > 0}
      at    == IF later = {} THEN Len(sorted) + 1
               ELSE CHOOSE k \in later : \A j \in later : k <= j
  IN  SubSeq(sorted, 1, at - 1) \o <<x>> \o SubSeq(sorted, at, Len(sorted))

RECURSIVE sortDistribution(_)
sortDistribution(s) ==
  IF s = <<>> THEN <<>>
  ELSE InsertDistribution(sortDistribution(SubSeq(s, 1, Len(s) - 1)), s[Len(s)])

\* variant: the entries stay in the order of the drivers list
buildDistributionUnsorted(ds, load) ==
  LET mapped == [k \in 1..Len(ds) |->
                   [ driverId   |-> ds[k].id,
                     driverName |-> Join(ds[k].name),
                     tripCount  |-> load[ds[k].id] ]]
  IN  SeqFilterIdx(mapped, {k \in 1..Len(mapped) : mapped[k].tripCount > 0})

buildDistribution(ds, load) ==
  LET mapped == [k \in 1..Len(ds) |->
                   [ driverId   |-> ds[k].id,
                     driverName |-> Join(ds[k].name),
                     tripCount  |-> load[ds[k].id] ]]
  IN  sortDistribution(SeqFilterIdx(mapped, {k \in 1..Len(mapped) : mapped[k].tripCount > 0}))

\* variant: the unassigned count is not reduced by the assigned trips
resultOfNoSubtraction(ts, ds, as, ws, load) ==
  [ assignments  |-> as,
    warnings     |-> ws,
    summary      |-> "Assigned " \o ToString(Len(as)) \o " of " \o ToString(Len(ts))
                       \o " trips",
    distribution |-> buildDistribution(ds, load),
    stats        |-> [ totalTrips      |-> Len(ts),
                       assignedCount   |-> Len(as),
                       unassignedCount |-> Len(ts) ] ]

\* variant: the two numbers of the summary change places
resultOfSummarySwapped(ts, ds, as, ws, load) ==
  [ assignments  |-> as,
    warnings     |-> ws,
    summary      |-> "Assigned " \o ToString(Len(ts)) \o " of " \o ToString(Len(as))
                       \o " trips",
    distribution |-> buildDistribution(ds, load),
    stats        |-> [ totalTrips      |-> Len(ts),
                       assignedCount   |-> Len(as),
                       unassignedCount |-> Len(ts) - Len(as) ] ]

\* the object of the final return
resultOf(ts, ds, as, ws, load) ==
  [ assignments  |-> as,
    warnings     |-> ws,
    summary      |-> "Assigned " \o ToString(Len(as)) \o " of " \o ToString(Len(ts))
                       \o " trips",
    distribution |-> buildDistribution(ds, load),
    stats        |-> [ totalTrips      |-> Len(ts),
                       assignedCount   |-> Len(as),
                       unassignedCount |-> Len(ts) - Len(as) ] ]

\* the loop is over: the distribution and the result are built
Return ==
  /\ pc = "loop"
  /\ i > Len(trips)
  /\ result' = Some(resultOf(trips, drivers, assignments, warnings, driverLoad))
  /\ pc' = "done"
  /\ UNCHANGED << args, locals, caller >>
  /\ UNCHANGED << ai, store >>

(***************************************************************************)
(* The caller of two runs: the assignments of the first run are committed  *)
(* and come back as existingAssignments of the run on the next batch       *)
(***************************************************************************)
tripOfId(ts, id) == ts[CHOOSE k \in 1..Len(ts) : ts[k].id = id]

committedOf(ts, as) ==
  [k \in 1..Len(as) |->
     [ driverId           |-> as[k].driverId,
       tripDate           |-> tripOfId(ts, as[k].tripId).tripDate,
       plannedArrivalTime |-> tripOfId(ts, as[k].tripId).plannedArrivalTime ]]

NextRun ==
  /\ pc = "done"
  /\ previous = None
  /\ expected = None
  /\ Len(queued) # 0
  /\ previous' = Some([ trips               |-> trips,
                        existingAssignments |-> existingAssignments,
                        result              |-> result[1] ])
  /\ existingAssignments' =
       existingAssignments \o committedOf(trips, result[1].assignments)
  /\ trips' = queued
  /\ queued' = <<>>
  /\ pc' = "call"
  /\ i' = 0
  /\ driverLoad' = <<>>
  /\ driverTimestamps' = <<>>
  /\ driversByDay' = <<>>
  /\ assignments' = <<>>
  /\ warnings' = <<>>
  /\ iter' = None
  /\ result' = None
  /\ UNCHANGED << drivers, expected, removed >>
  /\ UNCHANGED << ai, store >>

\* after the last batch the caller makes an earlier call once more, with the
\* same arguments: the call of the first batch when there were two runs (the
\* run of the second batch lies in between), the call just made otherwise.
\* Nothing of the engine is touched between the calls.
CallAgain ==
  /\ pc = "done"
  /\ expected = None
  /\ Len(queued) = 0
  /\ IF previous = None
       THEN /\ expected' = result
            /\ UNCHANGED << trips, existingAssignments >>
       ELSE /\ expected' = Some(previous[1].result)
            /\ trips' = previous[1].trips
            /\ existingAssignments' = previous[1].existingAssignments
  /\ previous' = None
  /\ pc' = "call"
  /\ result' = None
  /\ UNCHANGED << drivers, locals, queued, removed >>
  /\ UNCHANGED << ai, store >>

\* the positions of the existing assignments whose driver is in the drivers list
KnownEntries(ds, ex) ==
  {k \in 1..Len(ex) : \E n \in 1..Len(ds) : ds[n].id = ex[k].driverId}

\* after the last batch the caller makes the call just made once more, with
\* the existing assignments of drivers that are not in the drivers list left out
CallWithoutUnknown ==
  /\ pc = "done"
  /\ expected = None
  /\ Len(queued) = 0
  /\ KnownEntries(drivers, existingAssignments) # 1..Len(existingAssignments)
  /\ expected' = result
  /\ existingAssignments' =
       SeqFilterIdx(existingAssignments, KnownEntries(drivers, existingAssignments))
  /\ removed' =
       SeqFilterIdx(existingAssignments,
                    (1..Len(existingAssignments)) \ KnownEntries(drivers, existingAssignments))
  /\ previous' = None
  /\ pc' = "call"
  /\ result' = None
  /\ UNCHANGED << trips, drivers, locals, queued >>
  /\ UNCHANGED << ai, store >>

Next ==
  \/ ReturnNoTrips
  \/ ReturnNoDrivers
  \/ Setup
  \/ WarnNoDriver
  \/ WarnConflict
  \/ AssignTrip
  \/ Return
  \/ NextRun
  \/ CallAgain

Spec == Init /\ [][Next]_vars

\* the engine with a caller that also repeats a call without the existing
\* assignments of unknown drivers
NextRepeat ==
  \/ ReturnNoTrips
  \/ ReturnNoDrivers
  \/ Setup
  \/ WarnNoDriver
  \/ WarnConflict
  \/ AssignTrip
  \/ Return
  \/ NextRun
  \/ CallAgain
  \/ CallWithoutUnknown

SpecRepeat == Init /\ [][NextRepeat]_vars

\* the arguments, locals and caller of assignTripsToDrivers
engine ==
  << trips, drivers, existingAssignments, pc, i, driverLoad, driverTimestamps,
     driversByDay, assignments, warnings, result, iter, queued, previous,
     expected, removed >>

\* assignTripsToDrivers is not called
NotCalled ==
  /\ trips = <<>>
  /\ drivers = <<>>
  /\ existingAssignments = <<>>
  /\ queued = <<>>
  /\ pc = "call"
  /\ previous = None
  /\ expected = None
  /\ removed = <<>>
  /\ Fresh

(***************************************************************************)
(* The app store: openDialog, closeDialog, closeAllDialogs                 *)
(***************************************************************************)
DialogNames == DOMAIN initialDialogs

\* value?: string | boolean
DialogValues == {JSTrue, JSFalse, JSString("d1")}

\* openDialog: (dialog, value = true) => ...; value is None when the caller
\* gives none
openDialog(state, dialog, value) ==
  [state EXCEPT ![dialog] = IF value = None THEN JSTrue ELSE value[1]]

\* closeDialog: typeof state.dialogs[dialog] === "boolean" ? false : null
closeDialog(state, dialog) ==
  [state EXCEPT ![dialog] = IF state[dialog].type = "boolean" THEN JSFalse ELSE JSNull]

closeAllDialogs == initialDialogs

OpenDialog ==
  \E dialog \in DialogNames, value \in {None} \cup {Some(v) : v \in DialogValues} :
    /\ dialogs' = openDialog(dialogs, dialog, value)
    /\ lastCall' = Some([op |-> "openDialog", dialog |-> dialog, value |-> value])
    /\ UNCHANGED << engine, ai >>

CloseDialog ==
  \E dialog \in DialogNames :
    /\ dialogs' = closeDialog(dialogs, dialog)
    /\ lastCall' = Some([op |-> "closeDialog", dialog |-> dialog, value |-> None])
    /\ UNCHANGED << engine, ai >>

CloseAllDialogs ==
  /\ dialogs' = closeAllDialogs
  /\ lastCall' = Some([op |-> "closeAllDialogs", dialog |-> "", value |-> None])
  /\ UNCHANGED << engine, ai >>

InitStore ==
  /\ StoreCreated
  /\ NotCalled
  /\ DatabaseEmpty

NextStore ==
  \/ OpenDialog
  \/ CloseDialog
  \/ CloseAllDialogs

SpecStore == InitStore /\ [][NextStore]_vars

(***************************************************************************)
(* autoAssignDrivers: the AI path, two calls on one database               *)
(***************************************************************************)
\* the longest assignments array of an AI response
MaxProposals == 2

TripRows == {"t1", "t2"}
DriverRows == {"d1"}

\* the ids an AI response may name: those of the rows and one of no row each
ProposedTripIds == TripRows \cup {"tZ"}
ProposedDriverIds == DriverRows \cup {"dZ"}

Proposal(tripId, driverId) ==
  [tripId |-> tripId, driverId |-> driverId, reasoning |-> "available"]

\* a proposal for each trip with the driver, and proposals that name a trip
\* that is no row, a driver that is no row, or both
ProposalPool ==
  {Proposal(t, d) : t \in ProposedTripIds, d \in ProposedDriverIds}
    \ {Proposal("t2", "dZ")}

ProposalLists == UNION { [1..n -> ProposalPool] : n \in 0..MaxProposals }

\* response.text of generateContent: no text, text that is no JSON, JSON of
\* another shape, or the JSON of an AIResponse (with a summary and a warning
\* of its own when it has at most one proposal)
Text(kind, proposed, summary, notes) ==
  [kind |-> kind, assignments |-> proposed, summary |-> summary, warnings |-> notes]

Texts ==
  {Text(kind, <<>>, None, <<>>) : kind \in {"empty", "prose", "otherShape"}}
    \cup {Text("json", proposed, None, <<>>) : proposed \in ProposalLists}
    \cup {Text("json", proposed, Some("Assigned by AI"), <<"t2 has no driver">>) :
             proposed \in {list \in ProposalLists : Len(list) <= 1}}

\* parseAIResponse: the message of the Error thrown, or the data returned
parseAIResponse(text) ==
  IF text.kind = "empty"
    THEN [error |-> Some("Empty response from AI"), data |-> None]
  ELSE IF text.kind = "prose"
    THEN [error |-> Some("Failed to parse AI response as JSON."), data |-> None]
  ELSE IF text.kind = "otherShape"
    THEN [error |-> Some("Invalid AI response structure"), data |-> None]
  ELSE [ error |-> None,
         data  |-> Some([ assignments |-> text.assignments,
                          summary     |-> text.summary,
                          warnings    |-> text.warnings ]) ]

\* where: { assignment: null, tripStage: "Upcoming" }
unassignedTrips(rows, upcoming) ==
  {t \in upcoming : \A k \in 1..Len(rows) : rows[k].tripId # t}

\* variant: only the trip id is tested
validPositionsTripOnly(proposed, tripIdSet, driverIdSet) ==
  {k \in 1..Len(proposed) : proposed[k].tripId \in tripIdSet}

\* the positions the filter callback returns true for
validPositions(proposed, tripIdSet, driverIdSet) ==
  {k \in 1..Len(proposed) :
     proposed[k].tripId \in tripIdSet /\ proposed[k].driverId \in driverIdSet}

\* the warning the filter callback pushes for a proposal it returns false for
skippedWarning(proposal, tripIdSet, driverIdSet) ==
  IF proposal.tripId \notin tripIdSet
    THEN "Skipped invalid trip ID: " \o proposal.tripId
    ELSE "Skipped invalid driver ID: " \o proposal.driverId

\* the warnings array after the filter: those of the response, then one for
\* each proposal filtered out, in the order of the response
warningsAfterFilter(notes, proposed, valid, tripIdSet, driverIdSet) ==
  notes \o SeqFilterIdx([k \in 1..Len(proposed) |->
                           skippedWarning(proposed[k], tripIdSet, driverIdSet)],
                        (1..Len(proposed)) \ valid)

\* the rows prisma.tripAssignment.create makes of a batch; call is the call
\* whose transaction creates them (no column of the table)
rowsOf(c, batch) ==
  [k \in 1..Len(batch) |->
     [ tripId         |-> batch[k].tripId,
       driverId       |-> batch[k].driverId,
       isAutoAssigned |-> TRUE,
       aiReasoning    |-> batch[k].reasoning,
       call           |-> c ]]

\* variant: the table has no unique index
firstDuplicateNone(rows, batch) == 0

\* CREATE UNIQUE INDEX "TripAssignment_tripId_key": the position of the first
\* create of a batch that meets a row of the same trip, in the table or
\* created before it in the batch; 0 when there is none
firstDuplicate(rows, batch) ==
  LET dup == {k \in 1..Len(batch) :
                \/ \E r \in 1..Len(rows) : rows[r].tripId = batch[k].tripId
                \/ \E j \in 1..(k - 1) : batch[j].tripId = batch[k].tripId}
  IN  IF dup = {} THEN 0 ELSE CHOOSE k \in dup : \A j \in dup : k <= j

\* variant: the creates are not in one transaction, those before the one
\* that fails stay
afterFailureNoRollback(rows, created, failedAt) ==
  rows \o SubSeq(created, 1, failedAt - 1)

\* prisma.$transaction([...]): the table after a create of the batch failed
afterFailure(rows, created, failedAt) == rows

succeeded(proposed, summary, notes) ==
  [ success     |-> TRUE,
    error       |-> None,
    assignments |-> Some(proposed),
    summary     |-> summary,
    warnings    |-> notes ]

\* the return of the catch block
failed(message) ==
  [ success     |-> FALSE,
    error       |-> Some(message),
    assignments |-> None,
    summary     |-> None,
    warnings    |-> None ]

\* parsed.summary || `Assigned ${validAssignments.length} trips`
summaryOr(summary, batch) ==
  IF summary = None THEN "Assigned " \o ToString(Len(batch)) \o " trips" ELSE summary[1]

\* prisma.trip.findMany finds trips
FetchTrips ==
  \E c \in Calls :
    /\ call[c].pc = "fetchTrips"
    /\ unassignedTrips(tripAssignment, upcomingTrips) # {}
    /\ call' = [call EXCEPT ![c].trips = unassignedTrips(tripAssignment, upcomingTrips),
                            ![c].pc = "fetchDrivers"]
    /\ UNCHANGED << tripAssignment, upcomingTrips, activeDrivers, engine, store >>

\* prisma.trip.findMany finds none: if (trips.length === 0) return ...
NoUnassignedTrips ==
  \E c \in Calls :
    /\ call[c].pc = "fetchTrips"
    /\ unassignedTrips(tripAssignment, upcomingTrips) = {}
    /\ call' = [call EXCEPT
                  ![c].result = Some(succeeded(<<>>, Some("No unassigned trips to process"),
                                               None)),
                  ![c].pc = "done"]
    /\ UNCHANGED << tripAssignment, upcomingTrips, activeDrivers, engine, store >>

\* prisma.driver.findMany finds drivers
FetchDrivers ==
  \E c \in Calls :
    /\ call[c].pc = "fetchDrivers"
    /\ activeDrivers # {}
    /\ call' = [call EXCEPT ![c].drivers = activeDrivers, ![c].pc = "generate"]
    /\ UNCHANGED << tripAssignment, upcomingTrips, activeDrivers, engine, store >>

\* prisma.driver.findMany finds none: if (drivers.length === 0) return ...
NoActiveDrivers ==
  \E c \in Calls :
    /\ call[c].pc = "fetchDrivers"
    /\ activeDrivers = {}
    /\ call' = [call EXCEPT ![c].result = Some(failed("No active drivers available")),
                            ![c].pc = "done"]
    /\ UNCHANGED << tripAssignment, upcomingTrips, activeDrivers, engine, store >>

\* generateContent throws: the catch block returns
GenerateThrows ==
  \E c \in Calls :
    /\ call[c].pc = "generate"
    /\ call' = [call EXCEPT ![c].result = Some(failed("fetch failed")), ![c].pc = "done"]
    /\ UNCHANGED << tripAssignment, upcomingTrips, activeDrivers, engine, store >>

\* generateContent answers with a text parseAIResponse throws on
ParseThrows ==
  \E c \in Calls, text \in Texts :
    /\ call[c].pc = "generate"
    /\ parseAIResponse(text).error # None
    /\ call' = [call EXCEPT ![c].text = Some(text),
                            ![c].result = Some(failed(parseAIResponse(text).error[1])),
                            ![c].pc = "done"]
    /\ UNCHANGED << tripAssignment, upcomingTrips, activeDrivers, engine, store >>

\* the call after the filter, with the transaction to come
validated(entered, text, valid) ==
  [entered EXCEPT
     !.text = Some(text),
     !.validAssignments = SeqFilterIdx(text.assignments, valid),
     !.warnings = warningsAfterFilter(text.warnings, text.assignments, valid,
                                      entered.trips, entered.drivers),
     !.summary = text.summary,
     !.pc = "transaction"]

\* generateContent answers, the text is parsed and the ids are validated
Validate ==
  \E c \in Calls, text \in Texts :
    /\ call[c].pc = "generate"
    /\ parseAIResponse(text).error = None
    /\ call' = [call EXCEPT
                  ![c] = validated(call[c], text,
                                   validPositions(text.assignments, call[c].trips,
                                                  call[c].drivers))]
    /\ UNCHANGED << tripAssignment, upcomingTrips, activeDrivers, engine, store >>

\* the transaction commits: every create of the batch is done
Commit ==
  \E c \in Calls :
    /\ call[c].pc = "transaction"
    /\ firstDuplicate(tripAssignment, call[c].validAssignments) = 0
    /\ tripAssignment' = tripAssignment \o rowsOf(c, call[c].validAssignments)
    /\ call' = [call EXCEPT
                  ![c].transaction = "committed",
                  ![c].result =
                    Some(succeeded(call[c].validAssignments,
                                   Some(summaryOr(call[c].summary, call[c].validAssignments)),
                                   Some(call[c].warnings))),
                  ![c].pc = "done"]
    /\ UNCHANGED << upcomingTrips, activeDrivers, engine, store >>

\* a create of the batch meets the unique index: the transaction throws
Rollback ==
  \E c \in Calls :
    /\ call[c].pc = "transaction"
    /\ firstDuplicate(tripAssignment, call[c].validAssignments) # 0
    /\ tripAssignment' =
         afterFailure(tripAssignment, rowsOf(c, call[c].validAssignments),
                      firstDuplicate(tripAssignment, call[c].validAssignments))
    /\ call' = [call EXCEPT
                  ![c].transaction = "failed",
                  ![c].result =
                    Some(failed("Unique constraint failed on the fields: (tripId)")),
                  ![c].pc = "done"]
    /\ UNCHANGED << upcomingTrips, activeDrivers, engine, store >>

\* the database fails at a create of the batch: the transaction throws
DatabaseFails ==
  \E c \in Calls, failedAt \in 1..MaxProposals :
    /\ call[c].pc = "transaction"
    /\ failedAt <= Len(call[c].validAssignments)
    /\ firstDuplicate(tripAssignment, SubSeq(call[c].validAssignments, 1, failedAt)) = 0
    /\ tripAssignment' =
         afterFailure(tripAssignment, rowsOf(c, call[c].validAssignments), failedAt)
    /\ call' = [call EXCEPT
                  ![c].transaction = "failed",
                  ![c].result = Some(failed("Database server unreachable")),
                  ![c].pc = "done"]
    /\ UNCHANGED << upcomingTrips, activeDrivers, engine, store >>

\* the database before the calls: some trips are upcoming, t2 may be assigned
\* already, the driver may be active
InitAI ==
  /\ upcomingTrips \in {{}, {"t1"}, {"t1", "t2"}}
  /\ activeDrivers \in {{}, DriverRows}
  /\ \/ tripAssignment = <<>>
     \/ /\ "t2" \in upcomingTrips
        /\ tripAssignment = <<[ tripId         |-> "t2",
                                driverId       |-> "d1",
                                isAutoAssigned |-> FALSE,
                                aiReasoning    |-> "",
                                call           |-> "" ]>>
  /\ call = [c \in Calls |-> callEntered]
  /\ NotCalled
  /\ StoreCreated

NextAI ==
  \/ FetchTrips
  \/ NoUnassignedTrips
  \/ FetchDrivers
  \/ NoActiveDrivers
  \/ GenerateThrows
  \/ ParseThrows
  \/ Validate
  \/ Commit
  \/ Rollback
  \/ DatabaseFails

SpecAI == InitAI /\ [][NextAI]_vars

(***************************************************************************)
(* What the claims speak about                                             *)
(***************************************************************************)
HasResult == pc = "done"

\* the wall-clock minutes of the well-formed times of the pools; an absent
\* time counts as midnight
MinutesOf(time) ==
  CASE time = T_0020 -> 20
    [] time = T_0320 -> 3 * 60 + 20
    [] time = T_0459 -> 4 * 60 + 59
    [] time = T_0500 -> 5 * 60
    [] time = T_2300 -> 23 * 60
    [] time = <<"7", ":", "3", "5">> -> 7 * 60 + 35
    [] OTHER -> 0

\* date + planned time: the UTC calendar day of the date, plus the time
WallClock(date, time) ==
  (date \div MS_PER_DAY) * MS_PER_DAY + MinutesOf(time) * MS_PER_MINUTE

\* two timestamps at least the minimum separation apart
Apart(ts1, ts2) ==
  \/ ts1 - ts2 >= MIN_HOURS_BETWEEN_TRIPS * 60 * MS_PER_MINUTE
  \/ ts2 - ts1 >= MIN_HOURS_BETWEEN_TRIPS * 60 * MS_PER_MINUTE

\* the timestamps of the pre-existing assignments of a driver
CommittedTimes(ex, id) ==
  LET mine == SeqFilterIdx(ex, {k \in 1..Len(ex) : ex[k].driverId = id}) IN
  [k \in 1..Len(mine) |-> WallClock(mine[k].tripDate, mine[k].plannedArrivalTime)]

\* the timestamps of the trips that a list of assignments gives to a driver
AssignedTimes(ts, as, id) ==
  LET mine == SeqFilterIdx(as, {k \in 1..Len(as) : as[k].driverId = id}) IN
  [k \in 1..Len(mine) |->
     WallClock(tripOfId(ts, mine[k].tripId).tripDate,
               tripOfId(ts, mine[k].tripId).plannedArrivalTime)]

DriverIds == {drivers[k].id : k \in 1..Len(drivers)}

\* C1 as stated: after a call, any two distinct assignments of one driver,
\* pre-existing or new, are at least MIN_HOURS_BETWEEN_TRIPS hours apart
C1_AllPairsApart ==
  HasResult =>
    \A id \in DriverIds :
      LET all == CommittedTimes(existingAssignments, id)
                   \o AssignedTimes(trips, result[1].assignments, id)
      IN  \A j, k \in 1..Len(all) : j # k => Apart(all[j], all[k])

\* C1 as amended: after a call, any two distinct assignments of one driver of
\* which at least one is a new assignment of this run are at least
\* MIN_HOURS_BETWEEN_TRIPS hours apart
C1_NewPairsApart ==
  HasResult =>
    \A id \in DriverIds :
      LET old == CommittedTimes(existingAssignments, id)
          all == old \o AssignedTimes(trips, result[1].assignments, id)
      IN  \A j \in 1..Len(all), k \in (Len(old) + 1)..Len(all) :
            j # k => Apart(all[j], all[k])

\* a driver with a pre-existing assignment got a new trip
C1_Witness ==
  /\ HasResult
  /\ \E id \in DriverIds :
       /\ Len(CommittedTimes(existingAssignments, id)) > 0
       /\ Len(AssignedTimes(trips, result[1].assignments, id)) > 0

\* a driver got two new trips exactly three hours apart: the boundary of the
\* separation occurs
ExactlyThreeHoursApart ==
  /\ HasResult
  /\ \E id \in DriverIds :
       LET new == AssignedTimes(trips, result[1].assignments, id) IN
       \E j, k \in 1..Len(new) :
          new[k] - new[j] = MIN_HOURS_BETWEEN_TRIPS * 60 * MS_PER_MINUTE

\* the well-formed times of the pools before the cutoff, and those at or after it
EarlyTimes == {T_0020, T_0320, T_0459}

LateTimes == {T_0500, T_2300, <<"7", ":", "3", "5">>}

PreviousDay(dayOfWeek) == (dayOfWeek + 6) % 7

TripIds == {trips[k].id : k \in 1..Len(trips)}

driverOfId(id) == drivers[CHOOSE k \in 1..Len(drivers) : drivers[k].id = id]

\* C2: the driver of every emitted assignment is available on the effective
\* day of the trip
C2_AvailableOnEffectiveDay ==
  HasResult =>
    \A k \in 1..Len(result[1].assignments) :
      LET a    == result[1].assignments[k]
          trip == tripOfId(trips, a.tripId)
      IN  getEffectiveDayOfWeek(trip.dayOfWeek, trip.plannedArrivalTime)
            \in driverOfId(a.driverId).availability

\* a trip before the cutoff went to a driver who works on the day before and
\* not on the calendar day of the trip
C2_Witness ==
  /\ HasResult
  /\ \E k \in 1..Len(result[1].assignments) :
       LET a    == result[1].assignments[k]
           trip == tripOfId(trips, a.tripId)
       IN  /\ trip.plannedArrivalTime \in EarlyTimes
           /\ trip.dayOfWeek \notin driverOfId(a.driverId).availability
           /\ PreviousDay(trip.dayOfWeek) \in driverOfId(a.driverId).availability

\* C3: the effective day of a trip is the day before (Sunday wraps to
\* Saturday) when its time is well formed and before the cutoff hour, and the
\* calendar day when the time is absent or at or after the cutoff hour
C3_EffectiveDay ==
  iter # None =>
    LET trip == iter[1].trip IN
    /\ trip.plannedArrivalTime \in EarlyTimes
         => iter[1].effectiveDay = PreviousDay(trip.dayOfWeek)
    /\ trip.plannedArrivalTime \in LateTimes \cup {NullTime}
         => iter[1].effectiveDay = trip.dayOfWeek

\* a Sunday trip before the cutoff was looked up on Saturday
C3_Witness ==
  /\ iter # None
  /\ iter[1].trip.dayOfWeek = 0
  /\ iter[1].trip.plannedArrivalTime = T_0459
  /\ iter[1].effectiveDay = 6

\* the order of the selection: priority, then workload, then name
Precedes(a, b, load) ==
  LET pa == IF a.priority = None THEN 2 ELSE a.priority[1]
      pb == IF b.priority = None THEN 2 ELSE b.priority[1]
  IN  \/ pa < pb
      \/ pa = pb /\ load[a.id] < load[b.id]
      \/ pa = pb /\ load[a.id] = load[b.id] /\ localeCompare(a.name, b.name) < 0

\* the drivers available on the effective day of a trip that have no
\* timestamp within the minimum separation of it
Eligible(trip, timestamps) ==
  { d \in Range(drivers) :
      /\ getEffectiveDayOfWeek(trip.dayOfWeek, trip.plannedArrivalTime) \in d.availability
      /\ \A k \in 1..Len(timestamps[d.id]) :
            Apart(timestamps[d.id][k],
                  getTimestamp(trip.tripDate, trip.plannedArrivalTime)) }

\* C4: whenever a trip is assigned, the selected driver is eligible and no
\* eligible driver precedes it in the order priority, workload, name, taken
\* with the workloads of that moment
C4_SelectsMinimum ==
  [][ AssignTrip =>
        \E d \in Eligible(trips[i], driverTimestamps) :
          /\ d.id = assignments'[Len(assignments')].driverId
          /\ \A c \in Eligible(trips[i], driverTimestamps) :
                ~Precedes(c, d, driverLoad) ]_vars

\* a driver of higher priority was selected although another available
\* driver had a lower workload
C4_Witness ==
  /\ iter # None
  /\ iter[1].selectedDriver # None
  /\ \E k \in 1..Len(iter[1].availableDrivers) :
       LET c   == iter[1].availableDrivers[k]
           sel == iter[1].selectedDriver[1]
       IN  /\ PriorityOf(c) > PriorityOf(sel)
           /\ driverLoad[c.id] < driverLoad[sel.id] - 1

\* C5: the counts of the result add up, totalTrips is the number of trips and
\* assignedCount the number of assignments
C5_CountsAddUp ==
  HasResult =>
    /\ result[1].stats.assignedCount + result[1].stats.unassignedCount
         = result[1].stats.totalTrips
    /\ result[1].stats.totalTrips = Len(trips)
    /\ Len(result[1].assignments) = result[1].stats.assignedCount

\* a run that assigned one trip and left another unassigned
C5_Witness ==
  /\ HasResult
  /\ result[1].stats.assignedCount > 0
  /\ result[1].stats.unassignedCount > 0

\* C6: every emitted assignment names a trip and a driver of the input, no
\* trip is named twice, and no trip of an earlier run (now a pre-existing
\* assignment) is named
C6_ReferencesInput ==
  HasResult =>
    /\ \A k \in 1..Len(result[1].assignments) :
         /\ result[1].assignments[k].tripId \in TripIds
         /\ result[1].assignments[k].driverId \in DriverIds
         /\ previous # None =>
              \A j \in 1..Len(previous[1].trips) :
                 result[1].assignments[k].tripId # previous[1].trips[j].id
    /\ \A j, k \in 1..Len(result[1].assignments) :
         j # k => result[1].assignments[j].tripId # result[1].assignments[k].tripId
    /\ Len(result[1].assignments) <= Len(trips)

\* a second run with assignments of its own, after a run whose assignments
\* came back as pre-existing ones
C6_Witness ==
  /\ HasResult
  /\ previous # None
  /\ Len(previous[1].result.assignments) > 0
  /\ Len(existingAssignments) > Len(previous[1].result.assignments)
  /\ Len(result[1].assignments) > 0

\* C7: with trips and no drivers the result has no assignment, the one
\* warning "No active drivers available", assignedCount 0 and unassignedCount
\* the number of trips; and the call returns
C7_NoDrivers ==
  /\ (HasResult /\ Len(trips) # 0 /\ Len(drivers) = 0) =>
        /\ result[1].assignments = <<>>
        /\ result[1].warnings = <<"No active drivers available">>
        /\ result[1].stats.assignedCount = 0
        /\ result[1].stats.unassignedCount = Len(trips)
  /\ (pc = "call" /\ Len(trips) # 0 /\ Len(drivers) = 0) => ENABLED ReturnNoDrivers

\* the result of a call with two trips and no drivers
C7_Witness ==
  /\ HasResult
  /\ Len(trips) = 2
  /\ Len(drivers) = 0

\* C8: with no trips the result has no assignments, no warnings, the summary
\* "No trips to assign" and three zero counts, whatever the other arguments
C8_NoTrips ==
  (HasResult /\ Len(trips) = 0) =>
    /\ result[1].assignments = <<>>
    /\ result[1].warnings = <<>>
    /\ result[1].summary = "No trips to assign"
    /\ result[1].stats = [totalTrips |-> 0, assignedCount |-> 0, unassignedCount |-> 0]

\* the result of a call with no trips, no drivers and existing assignments
C8_Witness ==
  /\ HasResult
  /\ Len(trips) = 0
  /\ Len(drivers) = 0
  /\ Len(existingAssignments) > 0

\* C9: after a run on a second batch whose existingAssignments hold the
\* assignments of the first run, no driver has a trip of the second batch
\* less than the minimum separation from a trip of the first batch
C9_BatchesApart ==
  (HasResult /\ previous # None) =>
    \A id \in DriverIds :
      LET first  == AssignedTimes(previous[1].trips, previous[1].result.assignments, id)
          second == AssignedTimes(trips, result[1].assignments, id)
      IN  \A j \in 1..Len(first), k \in 1..Len(second) : Apart(first[j], second[k])

\* a driver has a trip of the first batch and a trip of the second batch
C9_Witness ==
  /\ HasResult
  /\ previous # None
  /\ \E id \in DriverIds :
       /\ Len(AssignedTimes(previous[1].trips, previous[1].result.assignments, id)) > 0
       /\ Len(AssignedTimes(trips, result[1].assignments, id)) > 0

\* the timestamps of 23:00 on Saturday 2026-01-10 and of 00:20 on the Sunday
SAT_2300 == 23 * 60 * MS_PER_MINUTE

SUN_0020 == MS_PER_DAY + 20 * MS_PER_MINUTE

\* C10: the timestamp of a trip before the cutoff is its own calendar date
\* plus its time, while its drivers are looked up on the day before; a trip
\* at 23:00 and a trip at 00:20 of the next date never go to the same driver,
\* and the driver of each works on the weekday of the first date (the
\* calendar day of the one, the day before the calendar day of the other)
C10_RolloverKeepsTimestamp ==
  /\ (iter # None /\ iter[1].trip.plannedArrivalTime \in EarlyTimes) =>
        /\ iter[1].tripTimestamp
             = WallClock(iter[1].trip.tripDate, iter[1].trip.plannedArrivalTime)
        /\ iter[1].effectiveDay = PreviousDay(iter[1].trip.dayOfWeek)
  /\ HasResult =>
        /\ \A id \in DriverIds :
             LET old == CommittedTimes(existingAssignments, id)
                 new == AssignedTimes(trips, result[1].assignments, id)
             IN  ~(SAT_2300 \in Range(old \o new) /\ SUN_0020 \in Range(new))
        /\ \A k \in 1..Len(result[1].assignments) :
             LET a    == result[1].assignments[k]
                 trip == tripOfId(trips, a.tripId)
             IN  /\ trip.plannedArrivalTime = T_2300
                      => trip.dayOfWeek \in driverOfId(a.driverId).availability
                 /\ trip.plannedArrivalTime = T_0020
                      => PreviousDay(trip.dayOfWeek) \in driverOfId(a.driverId).availability

\* one run gave the trip at 23:00 and the trip at 00:20 of the next date to
\* two drivers
C10_Witness ==
  /\ HasResult
  /\ \E a, b \in DriverIds :
       /\ a # b
       /\ SAT_2300 \in Range(AssignedTimes(trips, result[1].assignments, a))
       /\ SUN_0020 \in Range(AssignedTimes(trips, result[1].assignments, b))

\* the trips of a list that a list of assignments names, and those it does
\* not name, both in the order of the list
AssignedTrips(ts, as) ==
  SeqFilterIdx(ts, {k \in 1..Len(ts) : \E j \in 1..Len(as) : as[j].tripId = ts[k].id})

UnassignedTrips(ts, as) ==
  SeqFilterIdx(ts, {k \in 1..Len(ts) : \A j \in 1..Len(as) : as[j].tripId # ts[k].id})

\* the two warnings a trip can get
WarningsOf(trip) ==
  { noDriverWarning(trip, getEffectiveDayOfWeek(trip.dayOfWeek, trip.plannedArrivalTime)),
    conflictWarning(trip) }

\* a call that went through the loop
Looped == HasResult /\ Len(trips) # 0 /\ Len(drivers) # 0

\* C11: the assignments of the result name the assigned trips in the order
\* of the input trips, and the warnings are those of the unassigned trips in
\* the order in which the trips were processed (the order of the input)
C11_InputOrder ==
  Looped =>
    LET as  == result[1].assignments
        ws  == result[1].warnings
        in  == AssignedTrips(trips, as)
        out == UnassignedTrips(trips, as)
    IN  /\ [k \in 1..Len(as) |-> as[k].tripId] = [k \in 1..Len(in) |-> in[k].id]
        /\ Len(ws) = Len(out)
        /\ \A k \in 1..Len(ws) : ws[k] \in WarningsOf(out[k])

\* a run that assigned two trips
C11_Witness ==
  /\ Looped
  /\ Len(result[1].assignments) >= 2

\* a run that gave two warnings, of two trips
C11_WitnessWarnings ==
  /\ Looped
  /\ Len(result[1].warnings) >= 2
  /\ result[1].warnings[1] # result[1].warnings[2]

\* C12: with drivers, every trip processed so far has given one assignment or
\* one warning, the loop ends only after the last trip (a trip that was not
\* assigned does not end it), and in the result every trip has
\* exactly one of an assignment and a warning, the number of warnings being
\* stats.unassignedCount
C12_OneOutcomePerTrip ==
  /\ pc = "loop" =>
        /\ Len(assignments) + Len(warnings) = i - 1
        /\ i <= Len(trips) + 1
  /\ Looped =>
        LET as == result[1].assignments
            ws == result[1].warnings
        IN  /\ i = Len(trips) + 1
            /\ Len(ws) = result[1].stats.unassignedCount
            /\ Len(as) + Len(ws) = Len(trips)
            /\ \A k \in 1..Len(trips) :
                  LET given  == {j \in 1..Len(as) : as[j].tripId = trips[k].id}
                      warned == {j \in 1..Len(ws) : ws[j] \in WarningsOf(trips[k])}
                  IN  Cardinality(given) + Cardinality(warned) = 1

\* the first trip of a run got a warning and the second trip was assigned
C12_Witness ==
  /\ Looped
  /\ Len(trips) >= 2
  /\ Len(result[1].assignments) >= 1
  /\ result[1].assignments[1].tripId = trips[2].id
  /\ Len(result[1].warnings) >= 1

\* the drivers of the list that are available on a day
DriversOn(day) == {d \in Range(drivers) : day \in d.availability}

\* a driver has a committed timestamp (a pre-existing assignment or a trip
\* given earlier in the run) less than the minimum separation from a trip
Blocked(d, trip, timestamps) ==
  \E k \in 1..Len(timestamps[d.id]) :
     ~Apart(timestamps[d.id][k], WallClock(trip.tripDate, trip.plannedArrivalTime))

\* C13: when the trip just processed (with drivers) was not assigned, its
\* warning is the one of a day without drivers exactly when no driver is
\* available on the effective day of the trip, and the one of conflicting
\* trips exactly when some driver is available on that day and every such
\* driver has a committed timestamp less than 3 hours from the trip
C13_WarningKind ==
  (pc # "call" /\ iter # None /\ iter[1].selectedDriver = None) =>
    LET trip  == iter[1].trip
        day   == getEffectiveDayOfWeek(trip.dayOfWeek, trip.plannedArrivalTime)
        w     == warnings[Len(warnings)]
        onDay == DriversOn(day)
    IN  /\ w \in WarningsOf(trip)
        /\ w = "Trip " \o trip.tripId \o ": No driver available on "
                  \o DAY_NAMES[day + 1]
                  \o (IF day # trip.dayOfWeek
                        THEN " (night shift into " \o DAY_NAMES[trip.dayOfWeek + 1] \o ")"
                        ELSE "")
             <=> onDay = {}
        /\ w = conflictWarning(trip)
             <=> /\ onDay # {}
                 /\ \A d \in onDay : Blocked(d, trip, driverTimestamps)

\* drivers are available on the effective day, one of them has a pre-existing
\* assignment less than 3 hours from the trip (the others a trip of this
\* run), and the trip got the warning of conflicting trips
C13_Witness ==
  /\ pc # "call"
  /\ iter # None
  /\ iter[1].selectedDriver = None
  /\ \E d \in DriversOn(iter[1].effectiveDay) :
        \E k \in 1..Len(existingAssignments) :
           /\ existingAssignments[k].driverId = d.id
           /\ ~Apart(WallClock(existingAssignments[k].tripDate,
                               existingAssignments[k].plannedArrivalTime),
                     iter[1].tripTimestamp)
  /\ warnings[Len(warnings)] = conflictWarning(iter[1].trip)

\* a trip before the cutoff got the warning of a day without drivers, which
\* names the day before and the calendar day
C13_WitnessNoDriver ==
  /\ pc # "call"
  /\ iter # None
  /\ iter[1].selectedDriver = None
  /\ iter[1].effectiveDay # iter[1].trip.dayOfWeek
  /\ DriversOn(iter[1].effectiveDay) = {}

\* the number of entries of a list of (existing or new) assignments that
\* name a driver
CountOf(list, id) == Cardinality({k \in 1..Len(list) : list[k].driverId = id})

\* C14: the tripCount of every entry of the distribution is the number of
\* existingAssignments of that driver plus the number of new assignments of
\* that driver in this run
C14_TripCount ==
  HasResult =>
    \A k \in 1..Len(result[1].distribution) :
      LET e == result[1].distribution[k] IN
      e.tripCount = CountOf(existingAssignments, e.driverId)
                      + CountOf(result[1].assignments, e.driverId)

\* an entry of a driver with two pre-existing assignments and a new one
C14_Witness ==
  /\ HasResult
  /\ \E k \in 1..Len(result[1].distribution) :
       LET e == result[1].distribution[k] IN
       /\ CountOf(existingAssignments, e.driverId) >= 2
       /\ CountOf(result[1].assignments, e.driverId) >= 1
       /\ e.tripCount >= 3

\* the entries of a distribution name each driver of the list that has an
\* assignment (pre-existing or new) once and no other driver, by descending
\* tripCount
DistributionOfLoaded(ds, ex, res) ==
  LET dist == res.distribution IN
  /\ \A n \in 1..Len(ds) :
        Cardinality({k \in 1..Len(dist) : dist[k].driverId = ds[n].id})
          = IF CountOf(ex, ds[n].id) + CountOf(res.assignments, ds[n].id) > 0
              THEN 1 ELSE 0
  /\ \A k \in 1..Len(dist) : \E n \in 1..Len(ds) : ds[n].id = dist[k].driverId
  /\ \A j, k \in 1..Len(dist) : j < k => dist[j].tripCount >= dist[k].tripCount

\* C15 as stated: for every call, the distribution has one entry for each
\* driver of the list with at least one assignment, pre-existing or new, no
\* entry for a driver with none, and is sorted by descending tripCount
C15_EveryCall ==
  HasResult => DistributionOfLoaded(drivers, existingAssignments, result[1])

\* C15 as amended: the same for every call with at least one trip
C15_CallsWithTrips ==
  (HasResult /\ Len(trips) # 0) =>
    DistributionOfLoaded(drivers, existingAssignments, result[1])

\* a distribution of two entries in which the driver that comes later in the
\* drivers list has the higher tripCount and comes first, while a third
\* driver has no entry
C15_Witness ==
  /\ Looped
  /\ Len(result[1].distribution) = 2
  /\ Len(drivers) = 3
  /\ result[1].distribution[1].tripCount > result[1].distribution[2].tripCount
  /\ \E m, n \in 1..Len(drivers) :
       /\ m < n
       /\ drivers[n].id = result[1].distribution[1].driverId
       /\ drivers[m].id = result[1].distribution[2].driverId

\* C16: a call with the arguments of an earlier call (the same trips, drivers
\* and existingAssignments, in the same order) returns the result of that
\* call: the same assignments with the same reasoning in the same order, the
\* same warnings, summary, distribution and stats, whatever call was made in
\* between and whatever the earlier calls left behind
C16_SameResult ==
  (HasResult /\ expected # None /\ removed = <<>>) => result = expected

\* the call of the first batch was repeated after the call of the second
\* batch: it went through the loop again and gave its trip to a driver that
\* has a pre-existing assignment
C16_Witness ==
  /\ HasResult
  /\ expected # None
  /\ removed = <<>>
  /\ Len(existingAssignments) > 0
  /\ Len(result[1].assignments) > 0
  /\ Len(result[1].warnings) = 0
  /\ Len(warnings) = 0
  /\ \E id \in DriverIds :
       /\ result[1].assignments[1].driverId = id
       /\ result[1].distribution[1].driverId = id
       /\ result[1].distribution[1].tripCount = 2

\* a non-empty string of decimal digits
IsNumber(s) == s # <<>> /\ \A k \in 1..Len(s) : IsDigit(s[k])

\* two colon-separated numbers, the hour in 0..23 and the minute in 0..59
ValidHHMM(time) ==
  LET parts == split(time, ":") IN
  /\ Len(parts) = 2
  /\ IsNumber(parts[1])
  /\ IsNumber(parts[2])
  /\ DigitsValue(parts[1]) \in 0..23
  /\ DigitsValue(parts[2]) \in 0..59

\* a plannedArrivalTime that is present and is not a valid HH:MM time
Malformed(time) == time # NullTime /\ ~ValidHHMM(time)

\* C17: a trip whose plannedArrivalTime is present but not a valid HH:MM time
\* is processed like a trip without a time: its timestamp is midnight of its
\* tripDate and its effective day is its calendar day
C17_MalformedAsAbsent ==
  (pc # "call" /\ iter # None /\ Malformed(iter[1].trip.plannedArrivalTime)) =>
    /\ iter[1].tripTimestamp
         = getTimestamp(iter[1].trip.tripDate, NullTime)
    /\ iter[1].tripTimestamp = (iter[1].trip.tripDate \div MS_PER_DAY) * MS_PER_DAY
    /\ iter[1].effectiveDay = iter[1].trip.dayOfWeek

\* the malformed times of the pool that have an hour or a minute out of
\* range, or not two parts, or a part without a leading digit
RejectedTimes ==
  { <<"2", "4", ":", "0", "0">>,
    <<"1", "2", ":", "6", "0">>,
    <<"0", "1", ":", "3", "0", ":", "0", "0">>,
    <<"0", "1", "3", "0">>,
    <<"a", "b", ":", "c", "d">>,
    <<"-", "1", ":", "0", "0">>,
    <<>> }

\* those times are processed like an absent time
MalformedRejected ==
  (pc # "call" /\ iter # None /\ iter[1].trip.plannedArrivalTime \in RejectedTimes) =>
    /\ iter[1].tripTimestamp = (iter[1].trip.tripDate \div MS_PER_DAY) * MS_PER_DAY
    /\ iter[1].effectiveDay = iter[1].trip.dayOfWeek

\* "Assigned {assignedCount} of {totalTrips} trips" with the counts of a result
SummaryOfStats(res) ==
  "Assigned " \o ToString(res.stats.assignedCount) \o " of "
    \o ToString(res.stats.totalTrips) \o " trips"

\* C18 as stated: the summary of every call with at least one trip is
\* "Assigned {assignedCount} of {totalTrips} trips" with the counts of stats
C18_EveryCallWithTrips ==
  (HasResult /\ Len(trips) # 0) => result[1].summary = SummaryOfStats(result[1])

\* C18 as amended: the same for every call with at least one trip and at
\* least one driver
C18_CallsWithTripsAndDrivers ==
  Looped => result[1].summary = SummaryOfStats(result[1])

\* a run of two trips that assigned one: "Assigned 1 of 2 trips"
C18_Witness ==
  /\ Looped
  /\ result[1].stats.totalTrips = 2
  /\ result[1].stats.assignedCount = 1
  /\ result[1].summary = "Assigned 1 of 2 trips"

\* C19: no step of a call changes the trips list, the drivers list (its
\* order, the fields of its drivers), a tripDate or the existingAssignments
\* list; only the caller, between two calls, gives other arguments
C19_InputsUnchanged ==
  [][ pc # "done" =>
        /\ trips' = trips
        /\ drivers' = drivers
        /\ existingAssignments' = existingAssignments ]_vars

\* a call has returned that assigned a trip whose tripDate is not a UTC
\* midnight (the timestamp was computed on another Date) and that had a day
\* list in another order than the drivers list; the arguments stand as given
C19_Witness ==
  /\ Looped
  /\ Len(result[1].assignments) = 1
  /\ trips[1].tripDate % MS_PER_DAY # 0
  /\ iter # None
  /\ iter[1].tripTimestamp # trips[1].tripDate
  /\ \E day \in 0..6 :
       /\ Len(driversByDay[day]) = 2
       /\ driversByDay[day]
            # SeqFilterIdx(drivers, {k \in 1..Len(drivers) : day \in drivers[k].availability})

\* C20: the reasoning of every assignment is the name of the effective day
\* of the trip, followed by " night" exactly when the effective day is not
\* the calendar day, then the name of the driver of the assignment and the
\* label of its priority: high for 1, low for 3, med for anything else
C20_Reasoning ==
  Looped =>
    \A k \in 1..Len(result[1].assignments) :
      LET a     == result[1].assignments[k]
          trip  == tripOfId(trips, a.tripId)
          d     == driverOfId(a.driverId)
          day   == getEffectiveDayOfWeek(trip.dayOfWeek, trip.plannedArrivalTime)
          label == CASE d.priority = <<1>> -> "high"
                     [] d.priority = <<3>> -> "low"
                     [] OTHER -> "med"
      IN  a.reasoning
            = DAY_NAMES[day + 1]
                \o (IF day # trip.dayOfWeek THEN " night" ELSE "")
                \o " - " \o Join(d.name) \o " (" \o label \o " priority)"

\* a Sunday trip before the cutoff went to a driver without a priority
C20_Witness ==
  /\ Looped
  /\ \E k \in 1..Len(result[1].assignments) :
       /\ driverOfId(result[1].assignments[k].driverId).priority = None
       /\ result[1].assignments[k].reasoning = "Saturday night - bo (med priority)"

\* the other two labels and a trip on its calendar day occur
C20_WitnessLabels ==
  /\ Looped
  /\ Len(result[1].assignments) = 2
  /\ result[1].assignments[1].reasoning = "Saturday - Cy (high priority)"
  /\ result[1].assignments[2].reasoning = "Sunday - Al (low priority)"

\* the state of the maps before the iteration that iter describes: the trip
\* of an assignment is not yet counted for the selected driver
LoadBefore ==
  IF iter[1].selectedDriver = None THEN driverLoad
  ELSE [driverLoad EXCEPT ![iter[1].selectedDriver[1].id] = @ - 1]

TimestampsBefore ==
  IF iter[1].selectedDriver = None THEN driverTimestamps
  ELSE [driverTimestamps EXCEPT ![iter[1].selectedDriver[1].id] = SubSeq(@, 1, Len(@) - 1)]

\* a list of drivers in which every absent priority is written as 2
WithPriorityTwo(ds) ==
  [k \in 1..Len(ds) |->
     [ds[k] EXCEPT !.priority = IF ds[k].priority = None THEN Some(2) ELSE @]]

IdsOf(ds) == [k \in 1..Len(ds) |-> ds[k].id]

\* C21: a driver without a priority is ranked like a driver of priority 2.
\* The day list of a trip and the selected driver are those of the same
\* drivers with every absent priority written as 2; a driver without a priority is
\* never selected while a driver of priority 1 is available, a driver of
\* priority 3 never while a driver without a priority is available, and
\* between a driver without a priority and a driver of priority 2 the
\* workload and then the name decide
C21_AbsentPriorityIsTwo ==
  /\ (pc # "call" /\ iter # None) =>
        IdsOf(iter[1].dayDrivers)
          = IdsOf(dayDriversOf(WithPriorityTwo(drivers), iter[1].effectiveDay))
  /\ (pc # "call" /\ iter # None /\ iter[1].selectedDriver # None) =>
        LET sel   == iter[1].selectedDriver[1]
            avail == iter[1].availableDrivers
        IN  /\ sel.id = selectDriver(WithPriorityTwo(avail), LoadBefore).id
            /\ \A k \in 1..Len(avail) :
                  LET c == avail[k] IN
                  /\ (sel.priority = None) => c.priority # <<1>>
                  /\ (sel.priority = <<3>>) => c.priority # None
                  /\ (c.id # sel.id /\ {sel.priority, c.priority} = {None, <<2>>}) =>
                        \/ LoadBefore[sel.id] < LoadBefore[c.id]
                        \/ /\ LoadBefore[sel.id] = LoadBefore[c.id]
                           /\ localeCompare(sel.name, c.name) < 0

\* a driver without a priority and a driver of priority 2 were both
\* available; the one of priority 2 comes first in the drivers list and had
\* the same workload, and the driver without a priority was selected by name
C21_Witness ==
  /\ pc # "call"
  /\ iter # None
  /\ iter[1].selectedDriver # None
  /\ iter[1].selectedDriver[1].priority = None
  /\ \E k \in 1..Len(iter[1].availableDrivers) :
       LET c == iter[1].availableDrivers[k] IN
       /\ c.priority = <<2>>
       /\ LoadBefore[c.id] = LoadBefore[iter[1].selectedDriver[1].id]

\* a driver without a priority was selected with a lower workload than an
\* available driver of priority 2 whose name comes first
C21_WitnessLoad ==
  /\ pc # "call"
  /\ iter # None
  /\ iter[1].selectedDriver # None
  /\ \E k \in 1..Len(iter[1].availableDrivers) :
       LET c   == iter[1].availableDrivers[k]
           sel == iter[1].selectedDriver[1]
       IN  /\ {sel.priority, c.priority} = {None, <<2>>}
           /\ LoadBefore[sel.id] < LoadBefore[c.id]
           /\ localeCompare(c.name, sel.name) < 0

THREE_HOURS_MS == 3 * 60 * 60 * 1000

\* a timestamp of the list is strictly less than three hours from t
StrictlyWithinThreeHours(list, t) ==
  \E k \in 1..Len(list) :
     /\ list[k] - t < THREE_HOURS_MS
     /\ t - list[k] < THREE_HOURS_MS

\* C24: a driver of the day list of a trip is kept out of the filtered list
\* if and only if one of its committed timestamps is strictly less than 3
\* hours from the timestamp of the trip; a committed timestamp exactly 3
\* hours away keeps no driver out
C24_StrictBoundary ==
  (pc # "call" /\ iter # None) =>
    \A k \in 1..Len(iter[1].dayDrivers) :
      LET d == iter[1].dayDrivers[k] IN
      (d \notin Range(iter[1].availableDrivers))
        <=> StrictlyWithinThreeHours(TimestampsBefore[d.id],
                                     WallClock(iter[1].trip.tripDate,
                                               iter[1].trip.plannedArrivalTime))

\* a trip went to a driver whose nearest committed trip, on the same calendar
\* date, is exactly 3 hours away
C24_Witness ==
  /\ pc # "call"
  /\ iter # None
  /\ iter[1].selectedDriver # None
  /\ \E k \in 1..Len(TimestampsBefore[iter[1].selectedDriver[1].id]) :
       LET ts == TimestampsBefore[iter[1].selectedDriver[1].id][k] IN
       /\ iter[1].tripTimestamp - ts = THREE_HOURS_MS
       /\ ts \div MS_PER_DAY = iter[1].tripTimestamp \div MS_PER_DAY

\* the drivers of the list that are available on the effective day of the
\* trip of iter and had, when the trip was processed, no committed timestamp
\* less than 3 hours from it
FreeDrivers ==
  { d \in DriversOn(getEffectiveDayOfWeek(iter[1].trip.dayOfWeek,
                                          iter[1].trip.plannedArrivalTime)) :
      ~StrictlyWithinThreeHours(TimestampsBefore[d.id],
                                WallClock(iter[1].trip.tripDate,
                                          iter[1].trip.plannedArrivalTime)) }

\* C25: with drivers, the trip just processed was assigned if and only if
\* some driver available on its effective day had no committed timestamp
\* (pre-existing or of a trip assigned earlier in the run) less than 3 hours
\* from it; the driver it went to is such a driver
C25_AssignedIffFree ==
  (pc # "call" /\ iter # None) =>
    /\ IF iter[1].selectedDriver = None
         THEN FreeDrivers = {}
         ELSE iter[1].selectedDriver[1] \in FreeDrivers
    /\ iter[1].selectedDriver # None <=>
          ( /\ Len(assignments) > 0
            /\ assignments[Len(assignments)].tripId = iter[1].trip.id )

\* a trip went to the one driver of its day that was free, another driver of
\* the day having a trip of this run less than 3 hours away
C25_Witness ==
  /\ pc # "call"
  /\ iter # None
  /\ iter[1].selectedDriver # None
  /\ Cardinality(FreeDrivers) = 1
  /\ Len(iter[1].dayDrivers) = 2
  /\ Len(assignments) = 2
  /\ assignments[1].driverId # assignments[2].driverId

\* a driver of the list has two pre-existing assignments less than 3 hours apart
ExistingInConflict ==
  \E id \in DriverIds :
    LET old == CommittedTimes(existingAssignments, id) IN
    \E j, k \in 1..Len(old) : j # k /\ ~Apart(old[j], old[k])

\* C26: when the existingAssignments already hold two entries of one driver
\* less than 3 hours apart, every new assignment is still at least 3 hours
\* from every other assignment of its driver, new or pre-existing
C26_NoNewViolation ==
  (HasResult /\ ExistingInConflict) =>
    \A id \in DriverIds :
      LET old == CommittedTimes(existingAssignments, id)
          new == AssignedTimes(trips, result[1].assignments, id)
      IN  /\ \A j \in 1..Len(new), k \in 1..Len(old) : Apart(new[j], old[k])
          /\ \A j, k \in 1..Len(new) : j # k => Apart(new[j], new[k])

\* the driver with the two conflicting pre-existing assignments got a new trip
C26_Witness ==
  /\ HasResult
  /\ \E id \in DriverIds :
       LET old == CommittedTimes(existingAssignments, id) IN
       /\ \E j, k \in 1..Len(old) : j # k /\ ~Apart(old[j], old[k])
       /\ Len(AssignedTimes(trips, result[1].assignments, id)) > 0

\* all drivers have one priority and work on every day, there are no
\* existing assignments, and the trips are pairwise at least 3 hours apart
EvenCase ==
  /\ existingAssignments = <<>>
  /\ Len(drivers) > 0
  /\ \A k \in 1..Len(drivers) :
        /\ drivers[k].availability = 0..6
        /\ drivers[k].priority = drivers[1].priority
  /\ \A j, k \in 1..Len(trips) :
        j # k => Apart(WallClock(trips[j].tripDate, trips[j].plannedArrivalTime),
                       WallClock(trips[k].tripDate, trips[k].plannedArrivalTime))

\* the drivers in the order of their names
DriversByName ==
  CHOOSE order \in [1..Len(drivers) -> Range(drivers)] :
    /\ \A d \in Range(drivers) : \E k \in 1..Len(drivers) : order[k] = d
    /\ \A j, k \in 1..Len(drivers) :
          j < k => localeCompare(order[j].name, order[k].name) < 0

\* C27: in that case, after every processed trip the workloads of any two
\* drivers differ by at most 1, every trip processed is assigned, and the
\* k-th trip goes to the driver whose turn it is in the order of the names
C27_EvenRounds ==
  (EvenCase /\ (pc = "loop" \/ Looped)) =>
    /\ \A a, b \in DriverIds : driverLoad[a] - driverLoad[b] <= 1
    /\ Len(assignments) = i - 1
    /\ \A k \in 1..Len(assignments) :
          assignments[k].driverId = DriversByName[((k - 1) % Len(drivers)) + 1].id

\* two drivers and three trips: the second round has begun, the driver first
\* by name has two trips and the other one
C27_Witness ==
  /\ EvenCase
  /\ Looped
  /\ Len(drivers) = 2
  /\ Len(assignments) = 3
  /\ driverLoad[DriversByName[1].id] = 2
  /\ driverLoad[DriversByName[2].id] = 1

\* C28: existing assignments of drivers that are not in the drivers list have
\* no effect. The call made again without them returns the same assignments,
\* warnings, stats and distribution; no entry of a distribution names a
\* driver outside the list; and the maps of the engine have the drivers of
\* the list as their only keys
C28_UnknownDriverIgnored ==
  /\ (HasResult /\ expected # None /\ removed # <<>>) =>
        /\ result[1].assignments = expected[1].assignments
        /\ result[1].warnings = expected[1].warnings
        /\ result[1].stats = expected[1].stats
        /\ result[1].distribution = expected[1].distribution
  /\ HasResult =>
        \A k \in 1..Len(result[1].distribution) :
           result[1].distribution[k].driverId \in DriverIds
  /\ pc = "loop" =>
        /\ DOMAIN driverLoad = DriverIds
        /\ DOMAIN driverTimestamps = DriverIds

\* a call with two existing assignments of an unknown driver, at the time of
\* a trip it assigned, was made again without them
C28_Witness ==
  /\ HasResult
  /\ expected # None
  /\ Len(removed) = 2
  /\ Len(result[1].assignments) > 0
  /\ Len(result[1].distribution) > 0
  /\ \E k \in 1..Len(trips) :
       WallClock(trips[k].tripDate, trips[k].plannedArrivalTime)
         = WallClock(removed[1].tripDate, removed[1].plannedArrivalTime)

\* the rows of the table that the transaction of a call created
RowsBy(c) ==
  SeqFilterIdx(tripAssignment,
               {k \in 1..Len(tripAssignment) : tripAssignment[k].call = c})

\* the AI answered the call with the JSON of an AIResponse
Answered(c) ==
  /\ call[c].text # None
  /\ call[c].text[1].kind = "json"

\* the call returned after its transaction
Transacted(c) == call[c].pc = "done" /\ Answered(c)

\* the proposals of the answer, in its order, that name an id not fetched
Invalid(c) ==
  {k \in 1..Len(call[c].text[1].assignments) :
     \/ call[c].text[1].assignments[k].tripId \notin call[c].trips
     \/ call[c].text[1].assignments[k].driverId \notin call[c].drivers}

SkippedTrip(proposal) == "Skipped invalid trip ID: " \o proposal.tripId
SkippedDriver(proposal) == "Skipped invalid driver ID: " \o proposal.driverId

\* the proposals of the answer are in the list but for the invalid ones, and
\* the warnings are those of the answer and one "Skipped invalid ..." for
\* each invalid proposal
DroppedAndReported(c, kept, ws) ==
  /\ kept = SeqFilterIdx(call[c].text[1].assignments,
                         (1..Len(call[c].text[1].assignments)) \ Invalid(c))
  /\ Len(ws) = Len(call[c].text[1].warnings) + Cardinality(Invalid(c))
  /\ \A k \in Invalid(c) :
       \E w \in 1..Len(ws) :
          \/ /\ call[c].text[1].assignments[k].tripId \notin call[c].trips
             /\ ws[w] = SkippedTrip(call[c].text[1].assignments[k])
          \/ /\ call[c].text[1].assignments[k].tripId \in call[c].trips
             /\ ws[w] = SkippedDriver(call[c].text[1].assignments[k])

\* C22: every assignment that autoAssignDrivers persists and returns has a
\* tripId among the unassigned upcoming trips it fetched and a driverId among
\* the active drivers it fetched; every proposal of the AI that fails either
\* test is dropped and has its "Skipped invalid ..." warning, in the
\* warnings of the call and in those of the result it returns with success
C22_OnlyFetchedIds ==
  /\ \A k \in 1..Len(tripAssignment) :
       tripAssignment[k].call \in Calls =>
         /\ tripAssignment[k].tripId \in call[tripAssignment[k].call].trips
         /\ tripAssignment[k].driverId \in call[tripAssignment[k].call].drivers
  /\ \A c \in Calls :
       /\ call[c].trips \subseteq upcomingTrips
       /\ call[c].drivers \subseteq activeDrivers
       /\ Answered(c) =>
            DroppedAndReported(c, call[c].validAssignments, call[c].warnings)
       /\ (Transacted(c) /\ call[c].result[1].success) =>
            /\ \A k \in 1..Len(call[c].result[1].assignments[1]) :
                  /\ call[c].result[1].assignments[1][k].tripId \in call[c].trips
                  /\ call[c].result[1].assignments[1][k].driverId \in call[c].drivers
            /\ DroppedAndReported(c, call[c].result[1].assignments[1],
                                   call[c].result[1].warnings[1])

\* both calls returned with success: the first dropped a proposal for a trip
\* that is no row and kept one, the second dropped a proposal for a driver
\* that is no row and kept one
C22_Witness ==
  /\ \A c \in Calls : Transacted(c) /\ call[c].result[1].success
  /\ call["first"].text[1].assignments = <<Proposal("tZ", "d1"), Proposal("t1", "d1")>>
  /\ call["first"].result[1].assignments[1] = <<Proposal("t1", "d1")>>
  /\ call["first"].result[1].warnings[1] = <<"Skipped invalid trip ID: tZ">>
  /\ call["second"].text[1].assignments = <<Proposal("t1", "dZ"), Proposal("t2", "d1")>>
  /\ call["second"].result[1].assignments[1] = <<Proposal("t2", "d1")>>
  /\ call["second"].result[1].warnings[1] = <<"Skipped invalid driver ID: dZ">>
  /\ Len(tripAssignment) = 2

\* C23: the validated assignments are persisted as one batch, all or
\* nothing. A call that returns after its transaction either has success
\* true and every validated assignment is a row, or has success false with
\* an error message and none is; a call that has not returned with success
\* has no row
C23_AllOrNothing ==
  \A c \in Calls :
    /\ Transacted(c) =>
         \/ /\ call[c].result[1].success
            /\ RowsBy(c) = rowsOf(c, call[c].validAssignments)
         \/ /\ ~call[c].result[1].success
            /\ call[c].result[1].error # None
            /\ call[c].result[1].error[1] # ""
            /\ RowsBy(c) = <<>>
    /\ ~(Transacted(c) /\ call[c].result[1].success) => RowsBy(c) = <<>>

\* one call created both rows of its batch; the other, with a batch of two
\* for the trips it fetched, failed and none of the two is a row
C23_Witness ==
  /\ Transacted("first")
  /\ call["first"].result[1].success
  /\ Len(RowsBy("first")) = 2
  /\ Transacted("second")
  /\ ~call["second"].result[1].success
  /\ Len(call["second"].validAssignments) = 2
  /\ RowsBy("second") = <<>>
  /\ Len(tripAssignment) = 2

\* the trips of a batch
TripsOf(batch) == {batch[k].tripId : k \in 1..Len(batch)}

\* C29: whatever the interleaving of the calls, the table holds at most one
\* row for a trip. A batch with two entries for one trip fails as a whole,
\* and of two calls whose batches share a trip at most one has success: the
\* other returns success false and has no row
C29_OneRowPerTrip ==
  /\ \A j, k \in 1..Len(tripAssignment) :
       j # k => tripAssignment[j].tripId # tripAssignment[k].tripId
  /\ \A c \in Calls :
       (Transacted(c)
          /\ Cardinality(TripsOf(call[c].validAssignments)) < Len(call[c].validAssignments)) =>
         /\ ~call[c].result[1].success
         /\ RowsBy(c) = <<>>
  /\ \A c, d \in Calls :
       (c # d /\ Transacted(c) /\ Transacted(d)
          /\ TripsOf(call[c].validAssignments) \cap TripsOf(call[d].validAssignments) # {}) =>
         /\ ~(call[c].result[1].success /\ call[d].result[1].success)
         /\ ~call[c].result[1].success => RowsBy(c) = <<>>

\* both calls fetched t1 and had the assignment of t1 validated; the batch of
\* one was committed, the batch of the other met the unique index and the
\* call returned success false: t1 has one row
C29_Witness ==
  /\ \A c \in Calls : Transacted(c) /\ "t1" \in TripsOf(call[c].validAssignments)
  /\ call["second"].result[1].success
  /\ ~call["first"].result[1].success
  /\ call["first"].result[1].error = Some("Unique constraint failed on the fields: (tripId)")
  /\ Len(call["first"].validAssignments) = 2
  /\ Cardinality({k \in 1..Len(tripAssignment) : tripAssignment[k].tripId = "t1"}) = 1

\* one answer had two entries for t1: the call returned success false and t1
\* has no row
C29_WitnessTwice ==
  /\ Transacted("first")
  /\ call["first"].validAssignments = <<Proposal("t1", "d1"), Proposal("t1", "d1")>>
  /\ ~call["first"].result[1].success
  /\ \A k \in 1..Len(tripAssignment) : tripAssignment[k].tripId # "t1"

\* C30: in the app store a closeDialog(d) leaves dialogs[d] at its initial
\* closed value, false for addDriver, addTrip and importCSV and null for
\* editDriver, deleteDriver and assignDriver, whatever calls came before
C30_ClosedIsInitial ==
  (lastCall # None /\ lastCall[1].op = "closeDialog") =>
    dialogs[lastCall[1].dialog] = initialDialogs[lastCall[1].dialog]

====
